---- MODULE Spec2Model ----
(***************************************************************************)
(* A state-machine model of skillctl: promotion into the Pool              *)
(* (promote.py), the background job registry (web.py), the tracked source  *)
(* snapshot/diff check and registry (tracking.py, config.py), distribution *)
(* staging and sync (syncer.py), drift detection (web.py), selector        *)
(* resolution, import and source checkout (indexing.py), and the           *)
(* interleavings of promotions, of snapshot reads and writes and of the    *)
(* job registry's locks.                                                   *)
(*                                                                         *)
(* Text is modelled as a sequence of one-character strings so that         *)
(* slugification, blank tests and sorting are computed, not assumed.       *)
(***************************************************************************)
EXTENDS Naturals, Integers, Sequences, FiniteSets, TLC

VARIABLES
    \* ---- promote.py ----
    workspace,      \* source skill directories: dir name -> [SKILL_md, aux]
    pool_skills,    \* <pool>/skills: destination name -> directory or NoDir
    promotions,     \* <pool>/state/promotions.jsonl, one row per line
    clock,          \* wall clock, in ticks of 1/TicksPerSecond second
    last_promote,   \* the most recent promote_skill call and what it returned
    prev_promote,   \* the call before it
    n_promote,      \* number of promote_skill calls made
    \* ---- web.py: the job registry ----
    _JOBS,          \* ids registered in _JOBS
    _JOB_ORDER,     \* ids in submission order
    _JOBS_LOCK,     \* 0: free, else the job whose _start_job call holds it in _trim_jobs
    job,            \* the JobState objects: id -> [status, logs, result, error]
    pc,             \* where each job's _start_job call / _worker thread stands
    outcome,        \* what each job's runner did: Nothing, or a return value or an exception
    n_logged,       \* log calls each runner has made
    trim,           \* the running _trim_jobs loop: [list, i, kept]
    handle,         \* the job a poll request got from _get_job, Nothing between polls
    resp,           \* the last poll response
    client,         \* a polling client: [id, cursor, received]
    \* ---- tracking.py ----
    source_items,   \* relative directories of the skills now at the tracked source
    snapshots,      \* <pool>/state/tracking: file name -> the snapshot's "items"
    changes,        \* what happened to the source since the last check
    last_check,     \* the most recent check_tracked_source call and its result
    prev_check,     \* the call before it
    \* ---- tracking.py / config.py: the tracked-source registry ----
    tracked_sources, \* cfg.tracked_sources: the rows, in list order
    last_add,       \* the most recent add_tracked_source call and how it ended
    last_remove,    \* the most recent remove_tracked_source call and what it returned
    \* ---- syncer.py ----
    skills_root,    \* <pool>/skills: entry name -> "dir" (has SKILL.md) or "nomanifest"
    dist,           \* <pool>/dist: platform -> entry name -> [kind, target]
    touched,        \* someone other than the synchronizer changed skills/ or dist/ since the last run
    last_dist,      \* the most recent prepare_distribution call
    script_exists,  \* <pool>/tools/link-skills.sh exists
    installed,      \* platform -> skill names linked at the platform's install location
    last_sync,      \* the most recent run_sync call and how it ended
    \* ---- web.py: drift detection ----
    pool_manifests, \* the Pool's skills/*/SKILL.md: a set of [dir_name, front_name, body]
    discovered,     \* skills found outside: target-directory rows and inventory records
    unmanaged,      \* what _detect_unmanaged_agent_skills returned for them, or Nothing
    \* ---- indexing.py: selector resolution ----
    indexed,        \* index_repo(root): the skills of the source, [rel_dir, name]
    last_select,    \* the most recent _select_items call and how it ended
    \* ---- indexing.py: fetch_from_source ----
    last_fetch,     \* the most recent fetch_from_source call and how it ended
    \* ---- tracking.py: a tracked source from add to remove ----
    last_row_check, \* the most recent check of a registered row and what it reported
    \* ---- web.py: _JOBS_LOCK and the jobs' locks ----
    lock,           \* who holds each lock: lock[0] is _JOBS_LOCK, lock[j] is job j's JobState.lock
    thread,         \* where each thread stands: [pc, i, list]
    registry,       \* _JOB_ORDER as the threads under _JOBS_LOCK see it (_JOBS holds the same ids)
    polls,          \* poll requests served so far
    \* ---- indexing.py: materialize_source ----
    local_dirs,     \* the local directories that exist, by the path the caller names them with
    tmp_dirs,       \* the skillctl-src-* directories that exist under the temp directory
    n_tmp,          \* tempfile.mkdtemp calls made so far
    scope,          \* each materialize_source scope: [pc, source, tmp_root, cloned, raised]
    \* ---- promote.py: promote_skill calls running side by side ----
    race_pool,      \* skills/ of the Pool as the stepwise calls fill it: destination -> files
    race_log,       \* state/promotions.jsonl as the stepwise calls append to it
    caller,         \* each promote_skill call: [pc, src, dst, found, md, aux, result]
    \* ---- tracking.py: a snapshot file read while it is written ----
    snap_text,      \* the text of the snapshot file of one source: Nothing while there is no file
    whole,          \* the items of the last snapshot that was written completely
    checker,        \* each check_tracked_source call: [pc, current, prev, added, removed, basis]
    n_checks        \* check_tracked_source calls begun

promote_vars == <<workspace, pool_skills, promotions, clock,
                  last_promote, prev_promote, n_promote>>

job_vars == <<_JOBS, _JOB_ORDER, _JOBS_LOCK, job, pc, outcome, n_logged, trim>>
poll_vars == <<handle, resp, client>>

track_vars == <<source_items, snapshots, changes, last_check, prev_check>>

registry_vars == <<tracked_sources, last_add, last_remove>>

dist_vars == <<skills_root, dist, touched, last_dist>>

sync_vars == <<script_exists, installed, last_sync>>

drift_vars == <<pool_manifests, discovered, unmanaged>>

select_vars == <<indexed, last_select>>

fetch_vars == <<last_fetch>>

lifecycle_vars == <<last_row_check>>

lock_vars == <<lock, thread, registry, polls>>

mat_vars == <<local_dirs, tmp_dirs, n_tmp, scope>>

race_vars == <<race_pool, race_log, caller>>

snapio_vars == <<snap_text, whole, checker, n_checks>>

vars == <<promote_vars, job_vars, poll_vars, track_vars, registry_vars, dist_vars, sync_vars,
          drift_vars, select_vars, fetch_vars, lifecycle_vars, lock_vars, mat_vars, race_vars,
           snapio_vars>>

not_promote == <<job_vars, poll_vars, track_vars, registry_vars, dist_vars, sync_vars, drift_vars, select_vars,
                  fetch_vars, lifecycle_vars, lock_vars, mat_vars, race_vars, snapio_vars>>
not_jobs == <<promote_vars, poll_vars, track_vars, registry_vars, dist_vars, sync_vars, drift_vars, select_vars,
               fetch_vars, lifecycle_vars, lock_vars, mat_vars, race_vars, snapio_vars>>
not_poll == <<promote_vars, job_vars, track_vars, registry_vars, dist_vars, sync_vars, drift_vars, select_vars,
               fetch_vars, lifecycle_vars, lock_vars, mat_vars, race_vars, snapio_vars>>
not_track == <<promote_vars, job_vars, poll_vars, registry_vars, dist_vars, sync_vars, drift_vars, select_vars,
                fetch_vars, lifecycle_vars, lock_vars, mat_vars, race_vars, snapio_vars>>
not_registry == <<promote_vars, job_vars, poll_vars, track_vars, dist_vars, sync_vars, drift_vars, select_vars,
                   fetch_vars, lifecycle_vars, lock_vars, mat_vars, race_vars, snapio_vars>>
not_sync == <<promote_vars, job_vars, poll_vars, track_vars, registry_vars, drift_vars, select_vars,
               fetch_vars, lifecycle_vars, lock_vars, mat_vars, race_vars, snapio_vars>>
not_dist == <<not_sync, sync_vars>>
not_select == <<promote_vars, job_vars, poll_vars, track_vars, registry_vars, dist_vars, sync_vars,
                drift_vars, fetch_vars, lifecycle_vars, lock_vars, mat_vars, race_vars,
                 snapio_vars>>
not_drift == <<promote_vars, job_vars, poll_vars, track_vars, registry_vars, dist_vars, sync_vars, select_vars,
                fetch_vars, lifecycle_vars, lock_vars, mat_vars, race_vars, snapio_vars>>
not_snapio == <<promote_vars, job_vars, poll_vars, track_vars, registry_vars, dist_vars,
                sync_vars, drift_vars, select_vars, fetch_vars, lifecycle_vars, lock_vars,
                mat_vars, race_vars>>
not_race == <<promote_vars, job_vars, poll_vars, track_vars, registry_vars, dist_vars,
              sync_vars, drift_vars, select_vars, fetch_vars, lifecycle_vars, lock_vars,
              mat_vars, snapio_vars>>
not_mat == <<promote_vars, job_vars, poll_vars, track_vars, registry_vars, dist_vars,
             sync_vars, drift_vars, select_vars, fetch_vars, lifecycle_vars, lock_vars,
              race_vars, snapio_vars>>
not_lock == <<promote_vars, job_vars, poll_vars, track_vars, registry_vars, dist_vars,
              sync_vars, drift_vars, select_vars, fetch_vars, lifecycle_vars, mat_vars,
               race_vars, snapio_vars>>
not_lifecycle == <<promote_vars, job_vars, poll_vars, registry_vars, dist_vars, sync_vars,
                   drift_vars, select_vars, fetch_vars, lock_vars, mat_vars, race_vars,
                    snapio_vars>>
not_fetch == <<job_vars, poll_vars, track_vars, registry_vars, dist_vars,
               sync_vars, drift_vars, select_vars, lifecycle_vars, lock_vars, mat_vars,
                race_vars, snapio_vars>>

(***************************************************************************)
(* Bounds of the model.                                                    *)
(***************************************************************************)
MaxPromotes == 3        \* promote_skill calls explored
MaxClock == 3           \* last clock tick explored
MaxSubmit == 4          \* jobs submitted when the registry and its trimming are explored
MaxLive == 3            \* jobs submitted when termination is explored
MaxWatched == 1         \* jobs submitted when polling is explored
MaxRunnerLogs == 1      \* log calls a runner makes
\* The registry's ceiling. The source sets 120; the model scales it down so
\* that submissions can exceed it. _trim_jobs only compares against it.
_MAX_JOBS == 2

MaxRows == 3            \* rows the tracked-source registry grows to
MaxChecks == 4          \* check_tracked_source calls when reads and writes overlap
MaxCallers == 2         \* promote_skill calls that run side by side
MaxScopes == 2          \* materialize_source scopes entered
MaxLockJobs == 3        \* jobs submitted when the locks are explored
MaxPolls == 1           \* poll requests served when the locks are explored

TicksPerSecond == 2     \* clock resolution finer than the "%S" of the suffix

\* An optional value (Python's None, a file that may not exist): <<>> or <<v>>.
Nothing == <<>>
Some(v) == <<v>>
Get(o) == o[1]

(***************************************************************************)
(* Text helpers.                                                           *)
(***************************************************************************)
Whitespace == {" "}
SlugChars == {"a", "b", "c", "d", "e", "k", "o", "r", "s", "t", "u", "x",
              "0", "1", "2", "3", "4", "5", "6", "7", "8", "9", "_", "-"}

\* str.lower() on the characters the model uses
Lower(c) == IF c = "A" THEN "a" ELSE IF c = "B" THEN "b" ELSE c

RECURSIVE LStrip(_, _)
LStrip(s, cs) == IF s # <<>> /\ Head(s) \in cs THEN LStrip(Tail(s), cs) ELSE s

RECURSIVE RStrip(_, _)
RStrip(s, cs) ==
    IF s # <<>> /\ s[Len(s)] \in cs THEN RStrip(SubSeq(s, 1, Len(s) - 1), cs) ELSE s

\* str.strip() / str.strip(chars)
Strip(s, cs) == RStrip(LStrip(s, cs), cs)

LowerStr(s) == [i \in 1..Len(s) |-> Lower(s[i])]

\* re.sub(r"[^a-z0-9_-]+", "-", s): every maximal run of other characters becomes one "-"
RECURSIVE SubNonSlug(_)
SubNonSlug(s) ==
    IF s = <<>> THEN <<>>
    ELSE IF Head(s) \in SlugChars THEN <<Head(s)>> \o SubNonSlug(Tail(s))
    ELSE <<"-">> \o SubNonSlug(LStrip(s, {c \in {s[i] : i \in 1..Len(s)} : c \notin SlugChars}))

\* re.sub(r"-{2,}", "-", s)
RECURSIVE SubDashes(_)
SubDashes(s) ==
    IF s = <<>> THEN <<>>
    ELSE IF Head(s) = "-" THEN <<"-">> \o SubDashes(LStrip(s, {"-"}))
    ELSE <<Head(s)>> \o SubDashes(Tail(s))

UnnamedSkill == <<"u", "n", "n", "a", "m", "e", "d", "-", "s", "k", "i", "l", "l">>

\* promote.py _slugify
promote_slugify(name) ==
    LET s1 == LowerStr(Strip(name, Whitespace))
        s2 == SubNonSlug(s1)
        s3 == Strip(SubDashes(s2), {"-"})
    IN IF s3 = <<>> THEN UnnamedSkill ELSE s3

\* scanner.py sha256_file: the digest identifies the bytes of the file
sha256_file(bytes) == <<"sha256", bytes>>

(***************************************************************************)
(* promote.py                                                              *)
(***************************************************************************)
\* Source skill directories of the workspace (directory names): "x" is the
\* one the user edits, "A" keeps a manifest without a header.
SrcDirs == {<<"x">>, <<"A">>}
Edited == {<<"x">>}
\* Values of the manifest's "name:" header field; Nothing: no header.
Names == {Nothing, Some(<<"A", " ">>)}
Bodies == {"v1", "v2"}
Manifests == [name : Names, body : Bodies]
\* The other files of a skill directory, as one value per source directory.
AuxOf(d) == IF d = <<"x">> THEN "aux-x" ELSE "aux-A"

\* parse_frontmatter(skill_md)[0]
parse_name(manifest) == manifest.name

\* name or skill_dir.name
NameOr(name, dirname) == IF name = Nothing \/ Get(name) = <<>> THEN dirname ELSE Get(name)

SkillId(d, manifest) == promote_slugify(NameOr(parse_name(manifest), d))

Seconds == 0..(MaxClock \div TicksPerSecond)
\* datetime.now().strftime("%Y%m%d-%H%M%S"): the clock cut to whole seconds
strftime(now) == now \div TicksPerSecond

SkillIds == {SkillId(d, m) : d \in SrcDirs, m \in Manifests}
\* target_root / skill_id (no suffix) and target_root / f"{skill_id}-{suffix}"
DstName(skill_id, suffix) == <<skill_id, suffix>>
BaseName(skill_id) == DstName(skill_id, Nothing)

PoolDir(manifest, aux, origin) == [SKILL_md |-> manifest, aux |-> aux, origin |-> origin]

\* dst.exists()
Exists(pool, dst) == dst \in DOMAIN pool

\* PromoteTarget with the hash comparison lost: an existing destination is
\* always versioned past.
PromoteTargetNoSkip(pool, skill_id, src_hash, now) ==
    LET dst == BaseName(skill_id)
    IN IF Exists(pool, dst)
       THEN [skip |-> FALSE, dst |-> DstName(skill_id, Some(strftime(now)))]
       ELSE [skip |-> FALSE, dst |-> dst]

\* Lines 79-98: the destination promote_skill settles on, or the same-hash skip.
PromoteTarget(pool, skill_id, src_hash, now) ==
    LET dst == BaseName(skill_id)
    IN IF Exists(pool, dst)
       THEN IF pool[dst].SKILL_md # Nothing /\ sha256_file(Get(pool[dst].SKILL_md)) = src_hash
            THEN [skip |-> TRUE, dst |-> dst]
            ELSE [skip |-> FALSE, dst |-> DstName(skill_id, Some(strftime(now)))]
       ELSE [skip |-> FALSE, dst |-> dst]

PromoteResult(success, action, source, destination) ==
    [success |-> success, action |-> action, source |-> source, destination |-> destination]

\* What a call leaves behind for inspection: the input as it was, the Pool
\* as it was before the call, and the PromoteResult (or the exception raised).
CallRecord(d, result, pool_before) ==
    [dir |-> d, src |-> workspace[d], now |-> clock, pool_before |-> pool_before,
     result |-> result]

\* promote_skill(input_path, pool_dir, workspace), lines 64-130: what the call
\* returns (or the exception it raises) and what it leaves in the Pool
PromoteCall(d, pool, log, now) ==
    IF workspace[d].SKILL_md = Nothing
    THEN \* _resolve_skill_dir returned None
         [result |-> PromoteResult(FALSE, "invalid_input", <<>>, <<>>),
          pool |-> pool, promotions |-> log]
    ELSE LET skill_md == Get(workspace[d].SKILL_md)
             skill_id == SkillId(d, skill_md)
             src_hash == sha256_file(skill_md)
             target == PromoteTarget(pool, skill_id, src_hash, now)
             dst == target.dst
         IN IF target.skip
            THEN [result |-> PromoteResult(TRUE, "skip_same_hash", d, dst),
                  pool |-> pool, promotions |-> log]
            ELSE IF Exists(pool, dst)
            THEN \* shutil.copytree: os.makedirs(dst) raises FileExistsError
                 [result |-> PromoteResult(FALSE, "FileExistsError", d, dst),
                  pool |-> pool, promotions |-> log]
            ELSE [result |-> PromoteResult(TRUE, "copied", d, dst),
                  pool |-> pool @@
                         (dst :> PoolDir(Some(skill_md), workspace[d].aux,
                                         Some([source_path |-> d, sha256 |-> src_hash]))),
                  promotions |-> Append(log,
                         [action |-> "promote", source |-> d, destination |-> dst,
                          sha256 |-> src_hash])]

promote_skill(d) ==
    /\ n_promote < MaxPromotes
    /\ n_promote' = n_promote + 1
    /\ prev_promote' = last_promote
    /\ UNCHANGED <<workspace, clock>>
    /\ LET call == PromoteCall(d, pool_skills, promotions, clock)
       IN /\ last_promote' = Some(CallRecord(d, call.result, pool_skills))
          /\ pool_skills' = call.pool
          /\ promotions' = call.promotions
    /\ UNCHANGED not_promote

\* The user edits a source skill directory.
EditSkill(d) ==
    /\ \E m \in {Nothing} \cup {Some(x) : x \in Manifests} :
          /\ m # workspace[d].SKILL_md
          /\ workspace' = [workspace EXCEPT ![d].SKILL_md = m]
    /\ UNCHANGED <<pool_skills, promotions, clock, last_promote, prev_promote, n_promote>>
    /\ UNCHANGED not_promote

\* Time passes.
Tick ==
    /\ clock < MaxClock
    /\ clock' = clock + 1
    /\ UNCHANGED <<workspace, pool_skills, promotions, last_promote, prev_promote, n_promote>>
    /\ UNCHANGED not_promote

InitPromote ==
    /\ workspace = [d \in SrcDirs |->
                        [SKILL_md |-> Some([name |-> Nothing, body |-> "v1"]), aux |-> AuxOf(d)]]
    /\ pool_skills = <<>>
    /\ promotions = <<>>
    /\ clock = 0
    /\ last_promote = Nothing
    /\ prev_promote = Nothing
    /\ n_promote = 0

NextPromote ==
    \/ \E d \in SrcDirs : promote_skill(d)
    \/ \E d \in Edited : EditSkill(d)
    \/ Tick

(***************************************************************************)
(* Promotion: claims.                                                      *)
(***************************************************************************)
\* The directories the Pool holds for a skill id: skills/<id> and its
\* skills/<id>-<timestamp> variants.
DirsOf(pool, skill_id) == {n \in DOMAIN pool : n[1] = skill_id}

ManifestHash(dir) == sha256_file(Get(dir.SKILL_md))

\* The id promote_skill derived in a recorded call.
CallId(c) == SkillId(c.dir, Get(c.src.SKILL_md))

\* The last two calls promoted the same, unmodified skill directory, and the
\* Pool held nothing under its id before the first of them.
SamePromotedTwice ==
    /\ prev_promote # Nothing
    /\ last_promote # Nothing
    /\ Get(prev_promote).dir = Get(last_promote).dir
    /\ Get(prev_promote).src = Get(last_promote).src
    /\ Get(prev_promote).src.SKILL_md # Nothing
    /\ DirsOf(Get(prev_promote).pool_before, CallId(Get(prev_promote))) = {}

\* C1: promoting the same unmodified skill directory twice, into a Pool that
\* did not hold its id, returns "copied" and then "skip_same_hash", and the
\* Pool then holds exactly one directory for that skill.
C1_IdempotentPromotion ==
    SamePromotedTwice =>
        /\ Get(prev_promote).result.action = "copied"
        /\ Get(last_promote).result.action = "skip_same_hash"
        /\ Cardinality(DirsOf(pool_skills, CallId(Get(last_promote)))) = 1

C1_Witness ==
    /\ SamePromotedTwice
    /\ Get(last_promote).result.action = "skip_same_hash"
    /\ Cardinality(DOMAIN pool_skills) > 1

\* C2: the Pool holds each content version of a skill id at most once: no
\* two directories of one id contain manifests with the same content hash.
C2_OncePerContentVersion ==
    \A n1, n2 \in DOMAIN pool_skills :
        (n1 # n2 /\ n1[1] = n2[1]) =>
            ManifestHash(pool_skills[n1]) # ManifestHash(pool_skills[n2])

\* The last call found skills/<id> holding a manifest whose hash differs
\* from the source manifest's.
BaseDiffers(c) ==
    /\ c.src.SKILL_md # Nothing
    /\ Exists(c.pool_before, BaseName(CallId(c)))
    /\ c.pool_before[BaseName(CallId(c))].SKILL_md # Nothing
    /\ ManifestHash(c.pool_before[BaseName(CallId(c))]) # sha256_file(Get(c.src.SKILL_md))

\* C3: when skills/<id> exists with a different manifest hash, promote_skill
\* creates a second directory skills/<id>-<timestamp>, returns "copied" with
\* that directory as destination, and leaves the original unchanged.
C3_ContentChangeVersioning ==
    (last_promote # Nothing /\ BaseDiffers(Get(last_promote))) =>
        LET c == Get(last_promote)
            dst == DstName(CallId(c), Some(strftime(c.now)))
        IN /\ c.result.action = "copied"
           /\ c.result.destination = dst
           /\ ~Exists(c.pool_before, dst)
           /\ Exists(pool_skills, dst)
           /\ pool_skills[BaseName(CallId(c))] = c.pool_before[BaseName(CallId(c))]

\* C30: every promotion of a manifest version that differs from the one at
\* skills/<id> succeeds, and its destination did not exist before the call
\* and exists after it, also when several such promotions of one id fall
\* into the same clock second.
C30_DifferingVersionSucceeds ==
    (last_promote # Nothing /\ BaseDiffers(Get(last_promote))) =>
        LET c == Get(last_promote)
        IN /\ c.result.success
           /\ ~Exists(c.pool_before, c.result.destination)
           /\ Exists(pool_skills, c.result.destination)


(***************************************************************************)
(* web.py: JobState, _start_job, _trim_jobs, _job_snapshot                 *)
(***************************************************************************)
JobIds == 1..MaxSubmit
Terminal == {"success", "error"}

\* JobState.__init__ (the timestamps are left out)
JobState == [status |-> "queued", logs |-> <<>>, result |-> Nothing, error |-> Nothing]

\* The texts a runner logs, the values it returns and the exceptions it raises.
RunnerMessages == {<<" ", "m">>, <<" ">>}
RunnerResults == {<<"r">>}
RunnerErrors == {<<"e">>}
LogStarted == <<"s", "t", "a", "r", "t">>
LogDone == <<"d", "o", "n", "e">>
LogFailed(exc) == <<"f", "a", "i", "l", ":">> \o exc

\* _append_job_log(job, message), lines 149-154 (the clock prefix is left out)
_append_job_log(j, message) ==
    LET text == Strip(message, Whitespace)
    IN IF text = <<>> THEN j ELSE [j EXCEPT !.logs = Append(@, text)]

\* _worker lines 184-186 with the status write lost
SetRunningLost(j) == j

\* _worker lines 184-186
SetRunning(j) == [j EXCEPT !.status = "running"]

\* _worker lines 190-201 without the except clause: a raising runner ends the thread
SetFinishedNoCatch(j, o) ==
    IF o.kind = "raise" THEN j
    ELSE [j EXCEPT !.status = "success", !.result = Some(o.value)]

\* _worker lines 190-201 with the result stored after the lock is released
SetFinishedLate(j, o) ==
    IF o.kind = "raise"
    THEN [j EXCEPT !.status = "error", !.error = Some(o.value)]
    ELSE [j EXCEPT !.status = "success"]

\* _worker lines 190-194 and 198-201: the terminal status with its payload, under job.lock
SetFinished(j, o) ==
    IF o.kind = "raise"
    THEN [j EXCEPT !.status = "error", !.error = Some(o.value)]
    ELSE [j EXCEPT !.status = "success", !.result = Some(o.value)]

\* _trim_jobs evicting whatever is oldest
EvictableAny(status) == TRUE

\* _trim_jobs line 171
Evictable(status) == status \in Terminal

\* list.remove(x)
RECURSIVE Remove(_, _)
Remove(seq, x) ==
    IF seq = <<>> THEN <<>>
    ELSE IF Head(seq) = x THEN Tail(seq) ELSE <<Head(seq)>> \o Remove(Tail(seq), x)

NoTrim == [list |-> <<>>, i |-> 0, kept |-> {}]

\* _start_job lines 177-180: create the JobState and register it
Register(limit) ==
    /\ _JOBS_LOCK = 0
    /\ \E j \in JobIds :
          /\ j <= limit
          /\ pc[j] = "none"
          /\ \A k \in JobIds : k < j => pc[k] # "none"
          /\ _JOBS' = _JOBS \cup {j}
          /\ _JOB_ORDER' = Append(_JOB_ORDER, j)
          /\ job' = [job EXCEPT ![j] = JobState]
          /\ pc' = [pc EXCEPT ![j] = "trim"]
    /\ UNCHANGED <<_JOBS_LOCK, outcome, n_logged, trim>>
    /\ UNCHANGED not_jobs

\* _trim_jobs lines 158-160: take the registry lock; return at once under the ceiling
TrimBegin(j) ==
    /\ pc[j] = "trim"
    /\ _JOBS_LOCK = 0
    /\ IF Len(_JOB_ORDER) <= _MAX_JOBS
       THEN /\ pc' = [pc EXCEPT ![j] = "spawned"]
            /\ UNCHANGED <<_JOBS_LOCK, trim>>
       ELSE /\ pc' = [pc EXCEPT ![j] = "trimming"]
            /\ _JOBS_LOCK' = j
            /\ trim' = [list |-> _JOB_ORDER, i |-> 1, kept |-> {}]
    /\ UNCHANGED <<_JOBS, _JOB_ORDER, job, outcome, n_logged>>
    /\ UNCHANGED not_jobs

\* _trim_jobs lines 162-173: one iteration of the loop, or its end; then
\* _start_job line 204 starts the worker thread
TrimStep(j) ==
    /\ pc[j] = "trimming"
    /\ IF trim.i > Len(trim.list) \/ Len(_JOB_ORDER) <= _MAX_JOBS
       THEN /\ _JOBS_LOCK' = 0
            /\ trim' = NoTrim
            /\ pc' = [pc EXCEPT ![j] = "spawned"]
            /\ UNCHANGED <<_JOBS, _JOB_ORDER>>
       ELSE LET job_id == trim.list[trim.i]
            IN /\ IF job_id \notin _JOBS
                  THEN /\ _JOB_ORDER' = Remove(_JOB_ORDER, job_id)
                       /\ UNCHANGED _JOBS
                       /\ trim' = [trim EXCEPT !.i = @ + 1]
                  ELSE IF Evictable(job[job_id].status)
                  THEN /\ _JOBS' = _JOBS \ {job_id}
                       /\ _JOB_ORDER' = Remove(_JOB_ORDER, job_id)
                       /\ trim' = [trim EXCEPT !.i = @ + 1]
                  ELSE /\ UNCHANGED <<_JOBS, _JOB_ORDER>>
                       /\ trim' = [trim EXCEPT !.i = @ + 1, !.kept = @ \cup {job_id}]
               /\ UNCHANGED <<_JOBS_LOCK, pc>>
    /\ UNCHANGED <<job, outcome, n_logged>>
    /\ UNCHANGED not_jobs

\* _worker lines 184-186
WorkerStart(j) ==
    /\ pc[j] = "spawned"
    /\ job' = [job EXCEPT ![j] = SetRunning(@)]
    /\ pc' = [pc EXCEPT ![j] = "log_start"]
    /\ UNCHANGED <<_JOBS, _JOB_ORDER, _JOBS_LOCK, outcome, n_logged, trim>>
    /\ UNCHANGED not_jobs

\* _worker line 187
WorkerLogStart(j) ==
    /\ pc[j] = "log_start"
    /\ job' = [job EXCEPT ![j] = _append_job_log(@, LogStarted)]
    /\ pc' = [pc EXCEPT ![j] = "runner"]
    /\ UNCHANGED <<_JOBS, _JOB_ORDER, _JOBS_LOCK, outcome, n_logged, trim>>
    /\ UNCHANGED not_jobs

\* _worker line 189: the runner calls its log callback
RunnerLog(j) ==
    /\ pc[j] = "runner"
    /\ n_logged[j] < MaxRunnerLogs
    /\ \E msg \in RunnerMessages : job' = [job EXCEPT ![j] = _append_job_log(@, msg)]
    /\ n_logged' = [n_logged EXCEPT ![j] = @ + 1]
    /\ UNCHANGED <<_JOBS, _JOB_ORDER, _JOBS_LOCK, pc, outcome, trim>>
    /\ UNCHANGED not_jobs

\* _worker line 189: the runner returns
RunnerReturn(j) ==
    /\ pc[j] = "runner"
    /\ \E r \in RunnerResults :
          outcome' = [outcome EXCEPT ![j] = Some([kind |-> "return", value |-> r])]
    /\ pc' = [pc EXCEPT ![j] = "finish"]
    /\ UNCHANGED <<_JOBS, _JOB_ORDER, _JOBS_LOCK, job, n_logged, trim>>
    /\ UNCHANGED not_jobs

\* _worker lines 189-190: the runner raises
RunnerRaise(j) ==
    /\ pc[j] = "runner"
    /\ \E e \in RunnerErrors :
          outcome' = [outcome EXCEPT ![j] = Some([kind |-> "raise", value |-> e])]
    /\ pc' = [pc EXCEPT ![j] = "finish"]
    /\ UNCHANGED <<_JOBS, _JOB_ORDER, _JOBS_LOCK, job, n_logged, trim>>
    /\ UNCHANGED not_jobs

\* _worker lines 191-194 and 198-201
WorkerFinish(j) ==
    /\ pc[j] = "finish"
    /\ job' = [job EXCEPT ![j] = SetFinished(@, Get(outcome[j]))]
    /\ pc' = [pc EXCEPT ![j] = "log_end"]
    /\ UNCHANGED <<_JOBS, _JOB_ORDER, _JOBS_LOCK, outcome, n_logged, trim>>
    /\ UNCHANGED not_jobs

\* _worker lines 195 and 202
WorkerLogEnd(j) ==
    /\ pc[j] = "log_end"
    /\ job' = [job EXCEPT ![j] = _append_job_log(@,
                  IF Get(outcome[j]).kind = "raise"
                  THEN LogFailed(Get(outcome[j]).value) ELSE LogDone)]
    /\ pc' = [pc EXCEPT ![j] = "done"]
    /\ UNCHANGED <<_JOBS, _JOB_ORDER, _JOBS_LOCK, outcome, n_logged, trim>>
    /\ UNCHANGED not_jobs

\* The steps of _worker, the runner's own log calls aside.
Worker(j) ==
    \/ WorkerStart(j)
    \/ WorkerLogStart(j)
    \/ RunnerReturn(j)
    \/ RunnerRaise(j)
    \/ WorkerFinish(j)
    \/ WorkerLogEnd(j)

InitJobs ==
    /\ _JOBS = {}
    /\ _JOB_ORDER = <<>>
    /\ _JOBS_LOCK = 0
    /\ job = [j \in JobIds |-> JobState]
    /\ pc = [j \in JobIds |-> "none"]
    /\ outcome = [j \in JobIds |-> Nothing]
    /\ n_logged = [j \in JobIds |-> 0]
    /\ trim = NoTrim

\* _job_snapshot with the slice taken one line late
_job_snapshot_skip(j, id, cursor) ==
    LET n == Len(j.logs)
        safe_cursor == IF cursor < 0 THEN 0 ELSE IF cursor > n THEN n ELSE cursor
    IN [id |-> id, cursor |-> cursor, status |-> j.status, error |-> j.error,
        result |-> j.result,
        logs |-> SubSeq(j.logs, safe_cursor + 2, n),
        next_cursor |-> n]

\* _job_snapshot(job, cursor), lines 208-224, under job.lock
_job_snapshot(j, id, cursor) ==
    LET n == Len(j.logs)
        safe_cursor == IF cursor < 0 THEN 0 ELSE IF cursor > n THEN n ELSE cursor
    IN [id |-> id, cursor |-> cursor, status |-> j.status, error |-> j.error,
        result |-> j.result,
        logs |-> SubSeq(j.logs, safe_cursor + 1, n),
        next_cursor |-> n]

\* Cursors a request may carry: any integer, here from below 0 to past the longest log.
Cursors == -1..(MaxRunnerLogs + 3)

\* api_job_detail line 3128: _get_job(job_id), lines 227-229
GetJob(j) ==
    /\ handle = Nothing
    /\ _JOBS_LOCK = 0
    /\ j \in _JOBS
    /\ handle' = Some(j)
    /\ UNCHANGED <<resp, client>>
    /\ UNCHANGED not_poll

\* api_job_detail line 3131, for a request with any cursor
SnapshotAny(c) ==
    /\ handle # Nothing
    /\ resp' = Some(_job_snapshot(job[Get(handle)], Get(handle), c))
    /\ handle' = Nothing
    /\ UNCHANGED client
    /\ UNCHANGED not_poll

\* api_job_detail line 3131, for the client that follows one job and passes
\* the next_cursor of its previous response (0 the first time)
SnapshotClient ==
    /\ handle # Nothing
    /\ client # Nothing => Get(client).id = Get(handle)
    /\ LET c == IF client = Nothing THEN 0 ELSE Get(client).cursor
           received == IF client = Nothing THEN <<>> ELSE Get(client).received
           r == _job_snapshot(job[Get(handle)], Get(handle), c)
       IN /\ resp' = Some(r)
          /\ client' = Some([id |-> Get(handle), cursor |-> r.next_cursor,
                             received |-> received \o r.logs])
    /\ handle' = Nothing
    /\ UNCHANGED not_poll

InitPoll ==
    /\ handle = Nothing
    /\ resp = Nothing
    /\ client = Nothing

(***************************************************************************)
(* Jobs: claims.                                                           *)
(***************************************************************************)
Created(j) == pc[j] # "none"

\* C4: a job's status only moves queued -> running -> success or error; it
\* never goes back, never skips running, and never leaves a terminal value.
C4_StatusMonotonic ==
    [][\A j \in JobIds :
          job'[j].status # job[j].status =>
              <<job[j].status, job'[j].status>> \in
                  {<<"queued", "running">>, <<"running", "success">>, <<"running", "error">>}]_vars

C4_Witness ==
    \E j, k \in JobIds :
        /\ job[j].status = "success"
        /\ job[k].status = "error"
        /\ pc[j] = "done"

\* What a poll with cursor c must return for a log: the lines from index c
\* (clamped into 0..length) on, and the length as next cursor.
LinesFrom(logs, c) ==
    LET from == IF c < 0 THEN 0 ELSE IF c > Len(logs) THEN Len(logs) ELSE c
    IN [i \in 1..(Len(logs) - from) |-> logs[from + i]]

\* A poll request is answered in this step.
Answered == handle # Nothing /\ handle' = Nothing

\* C5: a poll with cursor c returns exactly the log lines at indices >= c
\* (clamped) in append order and next_cursor = the log's length; a client
\* that always passes the returned next_cursor has received, at any time,
\* exactly the first next_cursor lines of the log, each once and in order.
C5_CursorDelivery ==
    /\ [][Answered =>
             /\ Get(resp').logs = LinesFrom(job[Get(handle)].logs, Get(resp').cursor)
             /\ Get(resp').next_cursor = Len(job[Get(handle)].logs)]_vars
    /\ [](client # Nothing =>
             /\ Get(client).cursor <= Len(job[Get(client).id].logs)
             /\ Get(client).received =
                    SubSeq(job[Get(client).id].logs, 1, Get(client).cursor))

C5_Witness ==
    /\ client # Nothing
    /\ Len(Get(client).received) >= 2
    /\ Len(job[Get(client).id].logs) > Get(client).cursor
    /\ resp # Nothing
    /\ Get(resp).cursor > 0
    /\ Get(resp).logs # <<>>

\* C6: _trim_jobs removes a job only while the registry is above the ceiling,
\* only if its status is success or error, and only after every job submitted
\* before it was examined and found unfinished; a queued or running job is
\* always in the registry.
C6_TrimKeepsUnfinished ==
    /\ [][\A j \in JobIds :
             (j \in _JOBS /\ j \notin _JOBS') =>
                 /\ Len(_JOB_ORDER) > _MAX_JOBS
                 /\ job[j].status \in Terminal
                 /\ \A i \in 1..Len(_JOB_ORDER) :
                        _JOB_ORDER[i] < j => _JOB_ORDER[i] \in trim.kept
                 /\ Len(_JOB_ORDER') = Len(_JOB_ORDER) - 1]_vars
    /\ [](\A j \in JobIds :
             (Created(j) /\ job[j].status \notin Terminal) =>
                 j \in _JOBS /\ \E i \in 1..Len(_JOB_ORDER) : _JOB_ORDER[i] = j)

\* A later job was evicted past an older unfinished one, and the registry is
\* still above the ceiling with no trim running.
C6_Witness ==
    /\ \E j, k \in JobIds :
          /\ k < j
          /\ Created(j) /\ j \notin _JOBS
          /\ k \in _JOBS /\ job[k].status \notin Terminal
    /\ \E j \in JobIds : Created(j) /\ j \notin _JOBS /\ Len(_JOB_ORDER) > _MAX_JOBS
                         /\ _JOBS_LOCK = 0 /\ \A k \in JobIds : pc[k] \notin {"trim", "trimming"}

\* C7: a poll response carries a result only with status success and an error
\* only with status error, and a terminal status always comes with its payload.
C7_PayloadOnlyWhenTerminal ==
    resp # Nothing =>
        /\ Get(resp).result # Nothing <=> Get(resp).status = "success"
        /\ Get(resp).error # Nothing <=> Get(resp).status = "error"

C7_Witness ==
    /\ resp # Nothing
    /\ Get(resp).status = "error"
    /\ Get(resp).error = Some(<<"e">>)
    /\ Get(resp).result = Nothing

\* C8: every submitted job eventually reaches a terminal status: success with
\* the runner's return value as result, or error with the exception's message;
\* no other job's fields are touched by a runner's exception.
C8_RunsToTerminal ==
    /\ \A j \in JobIds : [](Created(j) => <>(job[j].status \in Terminal))
    /\ [](\A j \in JobIds :
             /\ job[j].status = "success" =>
                   /\ outcome[j] # Nothing /\ Get(outcome[j]).kind = "return"
                   /\ job[j].result = Some(Get(outcome[j]).value)
                   /\ job[j].error = Nothing
             /\ job[j].status = "error" =>
                   /\ outcome[j] # Nothing /\ Get(outcome[j]).kind = "raise"
                   /\ job[j].error = Some(Get(outcome[j]).value)
                   /\ job[j].result = Nothing
             /\ job[j].status \notin Terminal => job[j].error = Nothing /\ job[j].result = Nothing)

C8_Witness ==
    \E j, k \in JobIds :
        /\ job[j].status = "error" /\ job[j].error = Some(<<"e">>)
        /\ job[k].status = "running" /\ pc[k] = "runner"

\* C26: once a poll has returned a terminal status for a job, the job's log
\* gets no further line: it stays as long as that response said, and a client
\* whose last response was terminal has received every line of the log.
C26_NoLogAfterTerminal ==
    (resp # Nothing /\ Get(resp).status \in Terminal) =>
        /\ Len(job[Get(resp).id].logs) = Get(resp).next_cursor
        /\ (client # Nothing /\ Get(client).id = Get(resp).id
               /\ Get(client).cursor = Get(resp).next_cursor) =>
              Get(client).received = job[Get(resp).id].logs

(***************************************************************************)
(* tracking.py: check_tracked_source and the snapshot file                 *)
(***************************************************************************)
\* Code points of the characters the model uses, for Python's string order.
Ord(c) ==
    CASE c = " " -> 32 [] c = "!" -> 33 [] c = "-" -> 45 [] c = "/" -> 47
      [] c = "0" -> 48 [] c = "1" -> 49 [] c = "2" -> 50
      [] c = "A" -> 65 [] c = "B" -> 66 [] c = "_" -> 95
      [] c = "a" -> 97 [] c = "b" -> 98 [] c = "c" -> 99 [] c = "d" -> 100
      [] OTHER -> 120

\* s < t for Python strings
RECURSIVE StrLess(_, _)
StrLess(s, t) ==
    IF t = <<>> THEN FALSE
    ELSE IF s = <<>> THEN TRUE
    ELSE IF Head(s) = Head(t) THEN StrLess(Tail(s), Tail(t))
    ELSE Ord(Head(s)) < Ord(Head(t))

\* sorted(a set of strings)
RECURSIVE sorted(_)
sorted(S) ==
    IF S = {} THEN <<>>
    ELSE LET least == CHOOSE x \in S : \A y \in S \ {x} : StrLess(x, y)
         IN <<least>> \o sorted(S \ {least})

\* set(a list)
set(seq) == {seq[i] : i \in 1..Len(seq)}

TrackedSlug == <<"t", "r", "a", "c", "k", "e", "d", "-", "s", "o", "u", "r", "c", "e">>

\* tracking.py _slugify
tracking_slugify(raw) ==
    LET s1 == SubNonSlug(LowerStr(Strip(raw, Whitespace)))
        s2 == Strip(SubDashes(s1), {"-"})
    IN IF s2 = <<>> THEN TrackedSlug ELSE s2

\* The tracked source row that is checked: TrackedSource.id
SourceId == <<"a", "-", "x">>
\* Relative directories a skill of the source may have.
RelDirs == {<<"a">>, <<"b">>, <<" ">>}

\* _snapshot_path(pool_dir, source_id): the file's name under state/tracking
_snapshot_path(source_id) == tracking_slugify(source_id)

\* SelectSeq(items, str(x).strip() non-empty)
NonBlank(x) == Strip(x, Whitespace) # <<>>

\* _load_prev_items(path), lines 44-54
_load_prev_items(files, path) ==
    IF path \notin DOMAIN files THEN <<>>
    ELSE SelectSeq(files[path], NonBlank)

\* _save_snapshot(pool_dir, src, items), lines 57-70
_save_snapshot(files, source_id, items) ==
    [f \in DOMAIN files \cup {_snapshot_path(source_id)} |->
        IF f = _snapshot_path(source_id) THEN items ELSE files[f]]

NoChanges == [n |-> 0, move |-> <<>>]
\* One more change of the source since the last check; a lone move is remembered.
Changed(c, move) ==
    [n |-> IF c.n < 2 THEN c.n + 1 ELSE 2, move |-> IF c.n = 0 THEN move ELSE <<>>]

\* check_tracked_source(pool_dir, source, update_snapshot), lines 130-158
check_tracked_source(update_snapshot) ==
    LET current == sorted(source_items)
        snap_path == _snapshot_path(SourceId)
        prev == _load_prev_items(snapshots, snap_path)
        prev_set == set(prev)
        curr_set == set(current)
        added == sorted(curr_set \ prev_set)
        removed == sorted(prev_set \ curr_set)
    IN /\ snapshots' = IF update_snapshot
                       THEN _save_snapshot(snapshots, SourceId, current)
                       ELSE snapshots
       /\ last_check' = Some([source |-> SourceId, update_snapshot |-> update_snapshot,
                              current |-> current,
                              snapshot_before |-> IF snap_path \in DOMAIN snapshots
                                                  THEN Some(snapshots[snap_path]) ELSE Nothing,
                              since |-> changes,
                              total |-> Len(current), added |-> added, removed |-> removed])
       /\ prev_check' = last_check
       /\ changes' = NoChanges
       /\ UNCHANGED source_items
       /\ UNCHANGED not_track

\* The source's owner adds a skill directory.
AddSkill(p) ==
    /\ p \notin source_items
    /\ source_items' = source_items \cup {p}
    /\ changes' = Changed(changes, <<>>)
    /\ UNCHANGED <<snapshots, last_check, prev_check>>
    /\ UNCHANGED not_track

\* The source's owner deletes a skill directory.
RemoveSkill(p) ==
    /\ p \in source_items
    /\ source_items' = source_items \ {p}
    /\ changes' = Changed(changes, <<>>)
    /\ UNCHANGED <<snapshots, last_check, prev_check>>
    /\ UNCHANGED not_track

\* The source's owner moves a skill directory to another relative path.
MoveSkill(p, q) ==
    /\ p \in source_items
    /\ q \notin source_items
    /\ source_items' = (source_items \ {p}) \cup {q}
    /\ changes' = Changed(changes, <<p, q>>)
    /\ UNCHANGED <<snapshots, last_check, prev_check>>
    /\ UNCHANGED not_track

InitTrack ==
    /\ source_items = {}
    /\ snapshots = <<>>
    /\ changes = NoChanges
    /\ last_check = Nothing
    /\ prev_check = Nothing

NextTrack ==
    \/ \E u \in BOOLEAN : check_tracked_source(u)
    \/ \E p \in RelDirs : AddSkill(p)
    \/ \E p \in RelDirs : RemoveSkill(p)
    \/ \E p, q \in RelDirs : MoveSkill(p, q)

(***************************************************************************)
(* Tracking: claims.                                                       *)
(***************************************************************************)
\* The set the snapshot held when a recorded check began: what the previous
\* persisting check wrote, or nothing.
Persisted(c) == IF c.snapshot_before = Nothing THEN {} ELSE set(Get(c.snapshot_before))

Count(seq, x) == Cardinality({i \in 1..Len(seq) : seq[i] = x})

\* C9: with persistence on, each check reports added = current - persisted
\* and removed = persisted - current, sorted; with no snapshot, added is the
\* whole current set and removed is empty; a skill moved between two checks
\* is once in removed (old path) and once in added (new path).
C9_DiffAgainstPersisted ==
    (last_check # Nothing /\ Get(last_check).update_snapshot) =>
        LET c == Get(last_check)
        IN /\ c.added = sorted(set(c.current) \ Persisted(c))
           /\ c.removed = sorted(Persisted(c) \ set(c.current))
           /\ c.snapshot_before = Nothing => c.added = c.current /\ c.removed = <<>>
           /\ (/\ prev_check # Nothing
               /\ Get(prev_check).update_snapshot
               /\ c.since.move # <<>>) =>
                  /\ Count(c.removed, c.since.move[1]) = 1
                  /\ Count(c.added, c.since.move[2]) = 1

\* C10: a check with update_snapshot false leaves the snapshot as it was, and
\* repeating it on an unchanged source reports the same lists; a check with
\* update_snapshot true leaves exactly the current set in the snapshot, and a
\* repeated check on an unchanged source reports nothing added or removed.
C10_SnapshotFrame ==
    last_check # Nothing =>
        LET c == Get(last_check)
            path == _snapshot_path(c.source)
            now == IF path \in DOMAIN snapshots THEN Some(snapshots[path]) ELSE Nothing
        IN /\ ~c.update_snapshot => now = c.snapshot_before
           /\ c.update_snapshot => now = Some(c.current)
           /\ (prev_check # Nothing /\ c.since.n = 0) =>
                 /\ ~Get(prev_check).update_snapshot =>
                        c.added = Get(prev_check).added /\ c.removed = Get(prev_check).removed
                 /\ Get(prev_check).update_snapshot => c.added = <<>> /\ c.removed = <<>>

(***************************************************************************)
(* tracking.py / config.py: the tracked-source registry                    *)
(***************************************************************************)
Digits == <<"0", "1", "2", "3", "4", "5", "6", "7", "8", "9">>

\* str(i) for a natural number
RECURSIVE IntStr(_)
IntStr(i) == IF i < 10 THEN <<Digits[i + 1]>> ELSE IntStr(i \div 10) \o <<Digits[(i % 10) + 1]>>

\* TrackedSource (enabled and note are left out)
TrackedSource(id, agent_id, name, source) ==
    [id |-> id, agent_id |-> agent_id, name |-> name, source |-> source]

\* The dicts a configuration file may list under tracked_sources.
RawRows == {
    [id |-> <<"a", "-", "b">>, agent_id |-> <<"a">>, name |-> <<"b">>, source |-> <<"s">>],
    [id |-> <<" ", "A", "-", "b">>, agent_id |-> <<"A">>, name |-> <<"x">>, source |-> <<"s">>],
    [id |-> <<" ">>, agent_id |-> <<"a">>, name |-> <<"b">>, source |-> <<"s">>] }

\* The lists of them a file may hold: up to two entries, duplicates included.
RawConfigs == {<<>>} \cup {<<r>> : r \in RawRows} \cup {<<r, q>> : r, q \in RawRows}

\* _load_tracked_sources(raw), lines 125-153: the loop, with rows and seen so far
RECURSIVE LoadRows(_, _, _)
LoadRows(raw, rows, seen) ==
    IF raw = <<>> THEN rows
    ELSE LET item == Head(raw)
             sid == LowerStr(Strip(item.id, Whitespace))
             agent_id == LowerStr(Strip(item.agent_id, Whitespace))
             name == Strip(item.name, Whitespace)
             source == Strip(item.source, Whitespace)
         IN IF sid = <<>> \/ agent_id = <<>> \/ name = <<>> \/ source = <<>>
            THEN LoadRows(Tail(raw), rows, seen)
            ELSE IF sid \in seen THEN LoadRows(Tail(raw), rows, seen)
            ELSE LoadRows(Tail(raw), Append(rows, TrackedSource(sid, agent_id, name, source)),
                          seen \cup {sid})

_load_tracked_sources(raw) == LoadRows(raw, <<>>, {})

\* {x.id for x in cfg.tracked_sources}
ExistingIds(rows) == {rows[i].id : i \in 1..Len(rows)}

\* add_tracked_source lines 102-107: the while loop
RECURSIVE NextFreeId(_, _, _, _)
NextFreeId(sid, base_id, existing, idx) ==
    IF sid \in existing
    THEN NextFreeId(base_id \o <<"-">> \o IntStr(idx), base_id, existing, idx + 1)
    ELSE sid

\* add_tracked_source taking the base id as it is
DedupIdNone(base_id, existing) == base_id

\* add_tracked_source lines 102-107
DedupId(base_id, existing) == NextFreeId(base_id, base_id, existing, 2)

\* What callers pass to add_tracked_source.
AgentIds == {<<"a">>, <<" ">>}
SourceNames == {<<"b">>, <<>>}
SourceIdArgs == {Nothing, Some(<<"A", "-", "b">>)}
SourceArg == <<"s">>

\* add_tracked_source lines 101: source_id or f"{aid}-{name}"
BaseId(aid, name, source_id) ==
    tracking_slugify(IF source_id # Nothing /\ Get(source_id) # <<>>
                     THEN Get(source_id) ELSE aid \o <<"-">> \o name)

\* add_tracked_source(cfg, agent_id, name, source, source_id), lines 88-118
add_tracked_source(agent_id, name, source_id) ==
    /\ Len(tracked_sources) < MaxRows
    /\ LET aid == tracking_slugify(agent_id)
       IN IF aid = <<>>
          THEN /\ last_add' = Some([agent_id |-> agent_id, name |-> name, source_id |-> source_id,
                                    raised |-> "ValueError", row |-> Nothing])
               /\ UNCHANGED tracked_sources
          ELSE LET sid == DedupId(BaseId(aid, name, source_id), ExistingIds(tracked_sources))
                   row == TrackedSource(sid, aid, Strip(name, Whitespace),
                                        Strip(SourceArg, Whitespace))
               IN /\ tracked_sources' = Append(tracked_sources, row)
                  /\ last_add' = Some([agent_id |-> agent_id, name |-> name,
                                       source_id |-> source_id, raised |-> "",
                                       row |-> Some(row)])
    /\ UNCHANGED last_remove
    /\ UNCHANGED not_registry

\* Ids a caller may ask to remove.
RemoveArgs == {<<"a", "-", "b">>, <<" ", "A", "-", "b", "-", "2">>, <<"x">>}

\* list deletion: del rows[idx]
DelAt(rows, idx) == SubSeq(rows, 1, idx - 1) \o SubSeq(rows, idx + 1, Len(rows))

\* remove_tracked_source(cfg, source_id), lines 121-127
remove_tracked_source(source_id) ==
    /\ LET key == LowerStr(Strip(source_id, Whitespace))
           hits == {i \in 1..Len(tracked_sources) : tracked_sources[i].id = key}
       IN IF hits = {}
          THEN /\ UNCHANGED tracked_sources
               /\ last_remove' = Some([source_id |-> source_id, returned |-> FALSE])
          ELSE LET idx == CHOOSE i \in hits : \A k \in hits : i <= k
               IN /\ tracked_sources' = DelAt(tracked_sources, idx)
                  /\ last_remove' = Some([source_id |-> source_id, returned |-> TRUE])
    /\ UNCHANGED last_add
    /\ UNCHANGED not_registry

\* load_config: a command starts from what _load_tracked_sources makes of the file
load_config(raw) ==
    /\ tracked_sources' = _load_tracked_sources(raw)
    /\ last_add' = Nothing
    /\ last_remove' = Nothing
    /\ UNCHANGED not_registry

\* default_config: no tracked sources
InitRegistry ==
    /\ tracked_sources = <<>>
    /\ last_add = Nothing
    /\ last_remove = Nothing

NextRegistry ==
    \/ \E raw \in RawConfigs : load_config(raw)
    \/ \E a \in AgentIds, n \in SourceNames, i \in SourceIdArgs : add_tracked_source(a, n, i)
    \/ \E i \in RemoveArgs : remove_tracked_source(i)

(***************************************************************************)
(* Registry: claims.                                                       *)
(***************************************************************************)
\* base, base-2, base-3, ...: the k-th id add may try
Candidate(base_id, k) == IF k = 1 THEN base_id ELSE base_id \o <<"-">> \o IntStr(k)

\* C11: no two tracked-source rows share an id, whatever the file listed and
\* whatever was added and removed; an add appends one row, leaves the rows
\* already there as they were, and gives the new row the first of base,
\* base-2, base-3, ... that no existing row has.
C11_TrackedIdsUnique ==
    /\ [](\A i, k \in 1..Len(tracked_sources) :
             tracked_sources[i].id = tracked_sources[k].id => i = k)
    /\ [][(last_add' # Nothing /\ Len(tracked_sources') > Len(tracked_sources)) =>
             LET c == Get(last_add')
                 existing == ExistingIds(tracked_sources)
                 base_id == BaseId(tracking_slugify(c.agent_id), c.name, c.source_id)
                 new == tracked_sources'[Len(tracked_sources')]
             IN /\ tracked_sources' = Append(tracked_sources, new)
                /\ \E k \in 1..(Len(tracked_sources) + 1) :
                      /\ new.id = Candidate(base_id, k)
                      /\ new.id \notin existing
                      /\ \A m \in 1..(k - 1) : Candidate(base_id, m) \in existing]_vars

\* Two adds ran into taken ids: the registry holds base, base-2 and base-3.
C11_Witness ==
    /\ Len(tracked_sources) = 3
    /\ tracked_sources[1].id = <<"a", "-", "b">>
    /\ tracked_sources[2].id = <<"a", "-", "b", "-", "2">>
    /\ tracked_sources[3].id = <<"a", "-", "b", "-", "3">>

\* A string that is empty or all whitespace.
Blank(text) == Strip(text, Whitespace) = <<>>

\* C12: an add_tracked_source call whose agent id is blank, or whose name is
\* blank, fails with an error and adds no row.
C12_AddRequiresAgentAndName ==
    last_add # Nothing =>
        LET c == Get(last_add)
        IN (Blank(c.agent_id) \/ Blank(c.name)) =>
              /\ c.raised = "ValueError"
              /\ c.row = Nothing

(***************************************************************************)
(* tracking.py: a tracked source from add to remove                        *)
(***************************************************************************)
\* check_tracked_source(pool_dir, source, update_snapshot), lines 130-158, for
\* the row cfg.tracked_sources[i]
check_tracked_row(i, update_snapshot) ==
    LET source == tracked_sources[i]
        current == sorted(source_items)
        snap_path == _snapshot_path(source.id)
        prev == _load_prev_items(snapshots, snap_path)
        prev_set == set(prev)
        curr_set == set(current)
        added == sorted(curr_set \ prev_set)
        removed == sorted(prev_set \ curr_set)
    IN /\ snapshots' = IF update_snapshot
                       THEN _save_snapshot(snapshots, source.id, current)
                       ELSE snapshots
       /\ last_row_check' = Some([source |-> source.id, current |-> current,
                                  snapshot_before |-> IF snap_path \in DOMAIN snapshots
                                                      THEN Some(snapshots[snap_path]) ELSE Nothing,
                                  added |-> added, removed |-> removed])
       /\ UNCHANGED <<source_items, changes, last_check, prev_check>>
       /\ UNCHANGED not_lifecycle

InitLifecycle == last_row_check = Nothing

NextLifecycle ==
    \/ add_tracked_source(<<"a">>, <<"b">>, Nothing)
    \/ remove_tracked_source(<<"a", "-", "b">>)
    \/ \E i \in 1..Len(tracked_sources), u \in BOOLEAN : check_tracked_row(i, u)
    \/ AddSkill(<<"a">>)

(***************************************************************************)
(* Tracked source lifecycle: claims.                                       *)
(***************************************************************************)
\* C29: a tracked source starts with no snapshot, also when its id was used
\* before by a source that has been removed: the row an add appends has no
\* snapshot file, and a check that finds no snapshot reports every discovered
\* skill as added and none as removed.
C29_ReaddedSourceStartsFresh ==
    /\ [][(last_add' # Nothing /\ Len(tracked_sources') > Len(tracked_sources)) =>
             _snapshot_path(tracked_sources'[Len(tracked_sources')].id) \notin DOMAIN snapshots']_vars
    /\ []((last_row_check # Nothing /\ Get(last_row_check).snapshot_before = Nothing) =>
             /\ Get(last_row_check).added = Get(last_row_check).current
             /\ Get(last_row_check).removed = <<>>)

(***************************************************************************)
(* syncer.py: prepare_distribution                                         *)
(***************************************************************************)
\* Names an entry of skills/ or of dist/<platform> may have.
EntryNames == {<<"a">>, <<"b">>}
\* Platforms listed in config/targets.conf, as parse_target_platforms returns them.
TargetPlatforms == <<<<"p">>, <<"q">>>>
Platforms == set(TargetPlatforms)

\* skill.resolve(): the canonical path of a Pool skill directory
Canonical(name) == <<"skills", name>>
\* A path outside the Pool.
Elsewhere == <<"elsewhere">>

Symlink(target) == [kind |-> "symlink", target |-> target]
RealFile == [kind |-> "file", target |-> <<>>]

\* Path.is_symlink() for an entry of a directory listing
is_symlink(dir, name) == name \in DOMAIN dir /\ dir[name].kind = "symlink"

\* _normalize_skill_ids(values), lines 49-58
_normalize_skill_ids(values) ==
    IF values = Nothing THEN {}
    ELSE {Strip(Get(values)[i], Whitespace) : i \in 1..Len(Get(values))} \ {<<>>}

\* prepare_distribution lines 71-74: the names of the skills to publish
source_skills(root, selected_skills) ==
    LET with_manifest == {n \in DOMAIN root : root[n] = "dir"}
        selected == _normalize_skill_ids(selected_skills)
    IN IF selected # {} THEN {n \in with_manifest : n \in selected} ELSE with_manifest

\* prepare_distribution lines 86-96 with the target comparison left out:
\* every symlink is removed and made again
LinkEntryAlways(dir, name) ==
    IF is_symlink(dir, name) THEN [entry |-> Symlink(Canonical(name)), ops |-> {<<"unlink", name>>, <<"symlink_to", name>>}]
    ELSE IF name \in DOMAIN dir THEN [entry |-> dir[name], ops |-> {}]
    ELSE [entry |-> Symlink(Canonical(name)), ops |-> {<<"symlink_to", name>>}]

\* prepare_distribution lines 86-96 leaving any symlink it finds
LinkEntryKeep(dir, name) ==
    IF name \in DOMAIN dir THEN [entry |-> dir[name], ops |-> {}]
    ELSE [entry |-> Symlink(Canonical(name)), ops |-> {<<"symlink_to", name>>}]

\* prepare_distribution lines 86-96, for one desired skill: the entry that
\* results and the calls that changed the directory
LinkEntry(dir, name) ==
    IF is_symlink(dir, name)
    THEN IF dir[name].target = Canonical(name)
         THEN [entry |-> dir[name], ops |-> {}]
         ELSE [entry |-> Symlink(Canonical(name)),
               ops |-> {<<"unlink", name>>, <<"symlink_to", name>>}]
    ELSE IF name \in DOMAIN dir THEN [entry |-> dir[name], ops |-> {}]
    ELSE [entry |-> Symlink(Canonical(name)), ops |-> {<<"symlink_to", name>>}]

\* prepare_distribution lines 81-84 sweeping every entry outside the desired set
StaleAny(dir, expected) == {n \in DOMAIN dir : n \notin expected}

\* prepare_distribution lines 81-84: the entries the sweep unlinks
Stale(dir, expected) == {n \in DOMAIN dir : n \notin expected /\ is_symlink(dir, n)}

\* prepare_distribution lines 77-96, for one platform directory
DistPlatform(dir, expected) ==
    LET stale == Stale(dir, expected)
        swept == [n \in DOMAIN dir \ stale |-> dir[n]]
    IN [dir |-> [n \in DOMAIN swept \cup expected |->
                    IF n \in expected THEN LinkEntry(swept, n).entry ELSE swept[n]],
        ops |-> {<<"unlink", n>> : n \in stale}
                    \cup UNION {LinkEntry(swept, n).ops : n \in expected}]

\* prepare_distribution(pool_dir, platforms, selected_skills), lines 61-96.
\* skills/ exists (ensure_pool_layout makes it), so line 67 does not return.
PrepareDist(root, d, platforms, selected_skills) ==
    LET target_platforms == IF platforms # <<>> THEN platforms ELSE TargetPlatforms
        expected == source_skills(root, selected_skills)
        active == set(target_platforms)
    IN [dist |-> [p \in DOMAIN d \cup active |->
                     IF p \in active
                     THEN DistPlatform(IF p \in DOMAIN d THEN d[p] ELSE <<>>, expected).dir
                     ELSE d[p]],
        ops |-> UNION {{<<p, o>> : o \in DistPlatform(IF p \in DOMAIN d THEN d[p] ELSE <<>>,
                                                       expected).ops} : p \in active}]

\* What callers pass as platforms and as selected_skills.
PlatformArgs == {<<>>, <<<<"p">>>>, <<<<"q">>>>}
SelectedArgs == {Nothing, Some(<<<<" ">>>>), Some(<<<<"a", " ">>>>), Some(<<<<"x">>>>)}

\* What a prepare_distribution call does to skills/ and dist/
Prepared(platforms, selected_skills) ==
    LET r == PrepareDist(skills_root, dist, platforms, selected_skills)
    IN /\ dist' = r.dist
       /\ last_dist' = Some([platforms |-> platforms, selected_skills |-> selected_skills,
                             mutated |-> r.ops # {},
                             repeated |-> /\ last_dist # Nothing
                                          /\ ~touched
                                          /\ Get(last_dist).platforms = platforms
                                          /\ Get(last_dist).selected_skills = selected_skills])
       /\ touched' = FALSE
       /\ UNCHANGED skills_root

\* A call of prepare_distribution
prepare_distribution(platforms, selected_skills) ==
    /\ Prepared(platforms, selected_skills)
    /\ UNCHANGED not_dist

\* A skill directory appears in the Pool, loses or gains its manifest, or goes.
PoolChange(name, to) ==
    /\ to \in {"dir", "nomanifest", "none"}
    /\ to # (IF name \in DOMAIN skills_root THEN skills_root[name] ELSE "none")
    /\ skills_root' = [n \in (DOMAIN skills_root \cup {name}) \ (IF to = "none" THEN {name} ELSE {}) |->
                          IF n = name THEN to ELSE skills_root[n]]
    /\ touched' = TRUE
    /\ UNCHANGED <<dist, last_dist>>
    /\ UNCHANGED not_dist

\* Someone puts a real file, or a symlink of their own, under dist/<platform>.
StagingPlant(platform, name, entry) ==
    /\ name \notin DOMAIN dist[platform]
    /\ dist' = [dist EXCEPT ![platform] =
                   [n \in DOMAIN dist[platform] \cup {name} |->
                       IF n = name THEN entry ELSE dist[platform][n]]]
    /\ touched' = TRUE
    /\ UNCHANGED <<skills_root, last_dist>>
    /\ UNCHANGED not_dist

\* Someone removes an entry under dist/<platform>.
StagingRemove(platform, name) ==
    /\ name \in DOMAIN dist[platform]
    /\ dist' = [dist EXCEPT ![platform] = [n \in DOMAIN dist[platform] \ {name} |-> dist[platform][n]]]
    /\ touched' = TRUE
    /\ UNCHANGED <<skills_root, last_dist>>
    /\ UNCHANGED not_dist

\* ensure_pool_layout: skills/ and dist/<platform> exist and are empty
InitDist ==
    /\ skills_root = <<>>
    /\ dist = [p \in Platforms |-> <<>>]
    /\ touched = FALSE
    /\ last_dist = Nothing

NextDist ==
    \/ \E ps \in PlatformArgs, sel \in SelectedArgs : prepare_distribution(ps, sel)
    \/ \E n \in EntryNames, to \in {"dir", "nomanifest", "none"} : PoolChange(n, to)
    \/ \E p \in Platforms, n \in EntryNames :
          \E e \in {RealFile, Symlink(Elsewhere), Symlink(Canonical(n))} : StagingPlant(p, n, e)
    \/ \E p \in Platforms, n \in EntryNames : StagingRemove(p, n)

(***************************************************************************)
(* Distribution staging: claims.                                           *)
(***************************************************************************)
\* The ids a selection gives: its entries without surrounding blanks, blank
\* entries aside.
GivenIds(selected_skills) ==
    IF selected_skills = Nothing THEN {}
    ELSE {Strip(Get(selected_skills)[i], Whitespace) : i \in 1..Len(Get(selected_skills))} \ {<<>>}

\* The desired skills of a call: Pool skill directories holding a manifest,
\* filtered to the selected ids when a selection is given.
Desired(selected_skills) ==
    {n \in DOMAIN skills_root :
        /\ skills_root[n] = "dir"
        /\ GivenIds(selected_skills) # {} => n \in GivenIds(selected_skills)}

\* The platforms a call works on.
CallPlatforms(c) == IF c.platforms = <<>> THEN Platforms ELSE set(c.platforms)

\* prepare_distribution has just run: nothing else touched skills/ or dist/ since.
JustPrepared == last_dist # Nothing /\ ~touched

\* The reconciliation postcondition for a set of platforms: the symlinks
\* directly under dist/<platform> are exactly the desired names not occupied
\* by a non-symlink, and each resolves to its skill's canonical Pool directory.
StagingConsistent(platforms, selected_skills) ==
    \A p \in platforms :
        LET dir == dist[p]
            want == Desired(selected_skills)
        IN /\ {n \in DOMAIN dir : dir[n].kind = "symlink"} =
                  {n \in want : ~(n \in DOMAIN dir /\ dir[n].kind # "symlink")}
           /\ \A n \in DOMAIN dir : dir[n].kind = "symlink" => dir[n].target = Canonical(n)

\* C13: after prepare_distribution, the symlinks directly under each
\* dist/<platform> it worked on are exactly the desired names not occupied by
\* a non-symlink, and each resolves to its skill's canonical Pool directory.
C13_StagingMatchesDesired ==
    JustPrepared =>
        StagingConsistent(CallPlatforms(Get(last_dist)), Get(last_dist).selected_skills)

\* A selective call changed dist/p: it left a link for the selected skill and
\* a real file under the other name.
C13_Witness ==
    /\ JustPrepared
    /\ Get(last_dist).mutated
    /\ Get(last_dist).selected_skills = Some(<<<<"a", " ">>>>)
    /\ Get(last_dist).platforms = <<<<"p">>>>
    /\ skills_root = (<<"a">> :> "dir" @@ <<"b">> :> "dir")
    /\ dist[<<"p">>] = (<<"a">> :> Symlink(Canonical(<<"a">>)) @@ <<"b">> :> RealFile)

\* A step of prepare_distribution
PrepareStep == last_dist' # Nothing /\ ~touched'

\* C14: prepare_distribution leaves every non-symlink entry of dist/<platform>
\* as it was, desired name or not, and leaves dist/<platform> untouched for
\* every platform it was not called for.
C14_RealFilesAndOtherPlatformsKept ==
    [][PrepareStep =>
          /\ \A p \in DOMAIN dist : \A n \in DOMAIN dist[p] :
                dist[p][n].kind # "symlink" =>
                    n \in DOMAIN dist'[p] /\ dist'[p][n] = dist[p][n]
          /\ \A p \in DOMAIN dist :
                p \notin CallPlatforms(Get(last_dist')) => dist'[p] = dist[p]]_vars

\* A call for p alone changed dist/p, where real files sit under a desired
\* and an undesired name, while dist/q keeps a stale foreign symlink.
C14_Witness ==
    /\ JustPrepared
    /\ Get(last_dist).mutated
    /\ Get(last_dist).platforms = <<<<"p">>>>
    /\ skills_root = (<<"a">> :> "dir")
    /\ \E n \in EntryNames : n \in DOMAIN dist[<<"p">>] /\ dist[<<"p">>][n] = RealFile
    /\ <<"b">> \in DOMAIN dist[<<"q">>] /\ dist[<<"q">>][<<"b">>] = Symlink(Elsewhere)

\* C15: a prepare_distribution call repeated with the same platforms and
\* selection, on a Pool and staging nobody touched in between, removes,
\* creates and recreates nothing.
C15_SecondRunMutatesNothing ==
    (last_dist # Nothing /\ Get(last_dist).repeated) => ~Get(last_dist).mutated

\* A repeated call found links it had made and a real file.
C15_Witness ==
    /\ JustPrepared
    /\ Get(last_dist).repeated
    /\ \E p \in Platforms :
          /\ <<"a">> \in DOMAIN dist[p] /\ dist[p][<<"a">>].kind = "symlink"
          /\ <<"b">> \in DOMAIN dist[p] /\ dist[p][<<"b">>] = RealFile
          /\ <<"b">> \in DOMAIN skills_root /\ skills_root[<<"b">>] = "dir"

(***************************************************************************)
(* syncer.py run_sync and web.py _do_sync                                  *)
(***************************************************************************)
\* str.split(sep): the pieces of s between separators
RECURSIVE Split(_, _, _)
Split(s, sep, piece) ==
    IF s = <<>> THEN <<piece>>
    ELSE IF Head(s) = sep THEN <<piece>> \o Split(Tail(s), sep, <<>>)
    ELSE Split(Tail(s), sep, Append(piece, Head(s)))

\* sep.join(parts)
RECURSIVE Join(_, _)
Join(parts, sep) ==
    IF parts = <<>> THEN <<>>
    ELSE IF Len(parts) = 1 THEN parts[1]
    ELSE parts[1] \o <<sep>> \o Join(Tail(parts), sep)

\* [f(x) for x in xs if x.strip()] with f = strip().lower()
RECURSIVE StripLowerNonBlank(_)
StripLowerNonBlank(xs) ==
    IF xs = <<>> THEN <<>>
    ELSE IF Strip(Head(xs), Whitespace) = <<>> THEN StripLowerNonBlank(Tail(xs))
    ELSE <<LowerStr(Strip(Head(xs), Whitespace))>> \o StripLowerNonBlank(Tail(xs))

\* _normalize_platform_csv(value), lines 43-46
_normalize_platform_csv(value) ==
    IF value = Nothing \/ Get(value) = <<>> THEN <<>>
    ELSE StripLowerNonBlank(Split(Get(value), ",", <<>>))

\* [x for x in xs if x in keep]
RECURSIVE Keep(_, _)
Keep(xs, keep) ==
    IF xs = <<>> THEN <<>>
    ELSE IF Head(xs) \in keep THEN <<Head(xs)>> \o Keep(Tail(xs), keep)
    ELSE Keep(Tail(xs), keep)

\* run_sync lines 109-118: the active platforms
ActivePlatforms(only, allowed_platforms) ==
    LET from_config == TargetPlatforms
        allowed == IF allowed_platforms # Nothing
                   THEN Keep(from_config, set(StripLowerNonBlank(Get(allowed_platforms))))
                   ELSE from_config
        req_only == _normalize_platform_csv(only)
    IN IF req_only # <<>> THEN Keep(allowed, set(req_only)) ELSE allowed

\* SyncResult.success with the return code ignored
successAlways(returncode) == TRUE

\* SyncResult.success, lines 16-18
success(returncode) == returncode = 0

\* SyncResult (stdout and stderr are left out); cmd is Nothing for [], else
\* the flags after the script path and the value of --only
SyncResult(returncode, cmd) ==
    [returncode |-> returncode, cmd |-> cmd, success |-> success(returncode)]

\* run_sync lines 136-143 (backup_conflicts is left at its default)
Cmd(dry_run, prune, active) ==
    Some([flags |-> (IF dry_run THEN {"--dry-run"} ELSE {}) \cup (IF prune THEN {"--prune"} ELSE {}),
          only |-> Join(active, ",")])

\* The names dist/<platform> offers to the installer.
Staged(d, platform) == {n \in DOMAIN d[platform] : d[platform][n].kind = "symlink"}

\* tools/link-skills.sh, which the source tree does not hold: by the installer
\* contract it links what is staged into the install location of each
\* platform of --only and, with --prune, removes what is no longer staged;
\* with --dry-run, or when it fails, it changes nothing.
link_skills(inst, d, cmd, active, exit_code) ==
    IF "--dry-run" \in Get(cmd).flags \/ exit_code # 0 THEN inst
    ELSE [p \in DOMAIN inst |->
             IF p \in set(active)
             THEN (IF "--prune" \in Get(cmd).flags THEN {} ELSE inst[p]) \cup Staged(d, p)
             ELSE inst[p]]

\* run_sync with a dry run that leaves dist/ as it is
RunSyncDryRunKeepsDist(entry, dry_run, prune, only, allowed_platforms, selected_skills, exit_code) ==
    LET active == ActivePlatforms(only, allowed_platforms)
        call == [entry |-> entry, dry_run |-> dry_run,
                 selected_skills |-> selected_skills, active |-> active,
                 script |-> script_exists, exit_code |-> exit_code]
    IN IF active = <<>>
       THEN /\ last_sync' = Some([call |-> call, raised |-> "",
                                  result |-> Some(SyncResult(0, Nothing))])
            /\ UNCHANGED <<dist_vars, script_exists, installed>>
       ELSE /\ IF dry_run THEN UNCHANGED dist_vars ELSE Prepared(active, selected_skills)
            /\ IF ~script_exists
               THEN /\ last_sync' = Some([call |-> call, raised |-> "FileNotFoundError",
                                          result |-> Nothing])
                    /\ UNCHANGED <<script_exists, installed>>
               ELSE LET cmd == Cmd(dry_run, prune, active)
                    IN /\ installed' = link_skills(installed, dist', cmd, active, exit_code)
                       /\ last_sync' = Some([call |-> call, raised |-> "",
                                             result |-> Some(SyncResult(exit_code, cmd))])
                       /\ UNCHANGED script_exists

\* run_sync(pool_dir, dry_run, prune, only, allowed_platforms, selected_skills),
\* lines 99-181, called by entry; exit_code is what the installer exits with
RunSync(entry, dry_run, prune, only, allowed_platforms, selected_skills, exit_code) ==
    LET active == ActivePlatforms(only, allowed_platforms)
        call == [entry |-> entry, dry_run |-> dry_run,
                 selected_skills |-> selected_skills, active |-> active,
                 script |-> script_exists, exit_code |-> exit_code]
    IN IF active = <<>>
       THEN /\ last_sync' = Some([call |-> call, raised |-> "",
                                  result |-> Some(SyncResult(0, Nothing))])
            /\ UNCHANGED <<dist_vars, script_exists, installed>>
       ELSE /\ Prepared(active, selected_skills)
            /\ IF ~script_exists
               THEN /\ last_sync' = Some([call |-> call, raised |-> "FileNotFoundError",
                                          result |-> Nothing])
                    /\ UNCHANGED <<script_exists, installed>>
               ELSE LET cmd == Cmd(dry_run, prune, active)
                    IN /\ installed' = link_skills(installed, dist', cmd, active, exit_code)
                       /\ last_sync' = Some([call |-> call, raised |-> "",
                                             result |-> Some(SyncResult(exit_code, cmd))])
                       /\ UNCHANGED script_exists

\* What callers pass to run_sync, and how the installer may exit.
OnlyArgs == {Nothing, Some(<<" ", "p", ",", "x">>)}
AllowedArgs == {Some(<<<<"x">>>>), Some(<<<<"x">>, <<" ", "p">>>>)}
SyncSelectedArgs == {Nothing, Some(<<<<"a", " ">>>>)}
ExitCodes == {0, 3}

\* run_sync called directly (cli.py, ui.py, or as a library function)
run_sync(dry_run, prune, only, allowed_platforms, selected_skills, exit_code) ==
    /\ RunSync("run_sync", dry_run, prune, only, allowed_platforms, selected_skills, exit_code)
    /\ UNCHANGED not_sync

\* web.py _sanitize_skill_ids(skills), lines 847-856
RECURSIVE Sanitize(_, _)
Sanitize(skills, seen) ==
    IF skills = <<>> THEN <<>>
    ELSE LET key == Strip(Head(skills), Whitespace)
         IN IF key = <<>> \/ key \in seen THEN Sanitize(Tail(skills), seen)
            ELSE <<key>> \o Sanitize(Tail(skills), seen \cup {key})

_sanitize_skill_ids(skills) == Sanitize(skills, {})

\* The fields of a web SyncRequest.
ReqTargets == {<<>>, <<<<"p">>>>}
ReqSkills == {<<>>, <<<<" ">>, <<"a", " ">>>>}
\* granted_platforms(cfg.grant_targets): the platforms the configuration grants
GrantedPlatforms == <<<<"p">>, <<"x">>>>

\* web.py _do_sync(cfg, req), lines 890-923; granted_platforms maps a custom
\* target to the platform of the same name
_do_sync(dry_run, prune, only, targets, skills, exit_code) ==
    /\ LET allowed_platforms == GrantedPlatforms
           target_platforms == _sanitize_skill_ids(targets)
           selected_skills == _sanitize_skill_ids(skills)
           only_value == IF target_platforms # <<>> THEN Some(Join(target_platforms, ",")) ELSE only
           prune_value == IF selected_skills # <<>> /\ ~prune THEN TRUE ELSE prune
       IN RunSync("_do_sync", dry_run, prune_value, only_value, Some(allowed_platforms),
                  IF selected_skills # <<>> THEN Some(selected_skills) ELSE Nothing, exit_code)
    /\ UNCHANGED not_sync

\* The installer script is put in place or goes missing.
ScriptChange ==
    /\ script_exists' = ~script_exists
    /\ UNCHANGED <<installed, last_sync, dist_vars>>
    /\ UNCHANGED not_sync

InitSync ==
    /\ script_exists = TRUE
    /\ installed = [p \in Platforms |-> {}]
    /\ last_sync = Nothing

NextSync ==
    \/ \E dry_run, prune \in BOOLEAN, only \in OnlyArgs, allowed \in AllowedArgs,
          sel \in SyncSelectedArgs, code \in ExitCodes :
          run_sync(dry_run, prune, only, allowed, sel, code)
    \/ \E dry_run, prune \in BOOLEAN, only \in OnlyArgs, targets \in ReqTargets,
          skills \in ReqSkills, code \in ExitCodes :
          _do_sync(dry_run, prune, only, targets, skills, code)
    \/ ScriptChange
    \/ \E n \in EntryNames : PoolChange(n, "dir")

(***************************************************************************)
(* Sync: claims.                                                           *)
(***************************************************************************)
\* The installer was invoked by the last run_sync, and skills/ is as it was then.
InstallerRan ==
    /\ last_sync # Nothing
    /\ ~touched
    /\ Get(last_sync).result # Nothing
    /\ Get(Get(last_sync).result).cmd # Nothing

\* The selection restricts the sync to fewer skills than the Pool holds.
Restricted(selected_skills) == Desired(selected_skills) # Desired(Nothing)

\* C16: whenever a sync is restricted to a subset smaller than the full Pool,
\* the installer is invoked with --prune, requested or not, from every entry
\* point; so after a successful run that is not a dry run, no skill outside
\* the selection stays installed on an active platform.
C16_SubsetSyncForcesPrune ==
    (InstallerRan /\ Restricted(Get(last_sync).call.selected_skills)) =>
        LET c == Get(last_sync)
            r == Get(c.result)
        IN /\ "--prune" \in Get(r.cmd).flags
           /\ (r.success /\ "--dry-run" \notin Get(r.cmd).flags) =>
                 \A p \in set(c.call.active) :
                     installed[p] \subseteq Desired(c.call.selected_skills)

\* C17: with a non-empty platform set, a missing installer script makes
\* run_sync raise, and a non-zero installer exit comes back as a SyncResult
\* with that return code and success false; in both cases the staging
\* symlinks of the active platforms already match the desired set.
C17_FailureAfterStaging ==
    (last_sync # Nothing /\ Get(last_sync).call.active # <<>>) =>
        LET c == Get(last_sync)
            failed == ~c.call.script \/ c.call.exit_code # 0
        IN /\ ~c.call.script => c.raised = "FileNotFoundError" /\ c.result = Nothing
           /\ (c.call.script /\ c.call.exit_code # 0) =>
                 /\ c.raised = ""
                 /\ c.result # Nothing
                 /\ Get(c.result).returncode = c.call.exit_code
                 /\ ~Get(c.result).success
           /\ (failed /\ ~touched) =>
                 StagingConsistent(set(c.call.active), c.call.selected_skills)

\* The installer failed after a selective run had restaged dist/p.
C17_Witness ==
    /\ last_sync # Nothing /\ ~touched
    /\ Get(last_sync).call.script
    /\ Get(last_sync).result # Nothing /\ Get(Get(last_sync).result).returncode = 3
    /\ Get(last_sync).call.selected_skills # Nothing
    /\ Get(last_dist).mutated
    /\ skills_root = (<<"a">> :> "dir" @@ <<"b">> :> "dir")
    /\ Staged(dist, <<"p">>) = {<<"a">>}

_skill_key(raw) == Strip(SubDashes(SubNonSlug(LowerStr(Strip(raw, Whitespace)))), {"-"})

\* Manifests the Pool may hold under skills/<dir_name>/SKILL.md.
PoolManifests == {
    [dir_name |-> <<"a">>, front_name |-> Nothing, body |-> "v1"],
    [dir_name |-> <<"x">>, front_name |-> Some(<<" ", "B">>), body |-> "v2"] }

\* Skills found outside skills/: md is the resolved manifest path, inside
\* tells whether the directory resolves under <pool>/skills or <pool>/dist,
\* target whether it sits in a platform's install directory (one level deep).
Found(md, dir_name, name, body, inside, target, agent) ==
    [md |-> md, dir_name |-> dir_name, name |-> name, body |-> body,
     inside |-> inside, target |-> target, agent |-> agent]

DiscoveredSkills == {
    Found(1, <<"a">>, <<"a">>, "v1", FALSE, TRUE, <<"c">>),
    Found(2, <<"c">>, <<"c">>, "v1", FALSE, FALSE, <<"c">>),
    Found(3, <<"a">>, <<"a">>, "v3", FALSE, FALSE, <<"c">>),
    Found(3, <<"d">>, <<" ">>, "v3", FALSE, FALSE, <<"a">>),
    Found(4, <<"c">>, <<"b", " ">>, "v3", FALSE, TRUE, <<"c">>),
    Found(5, <<"c">>, <<"c">>, "v3", FALSE, FALSE, <<"a">>),
    Found(6, <<"a">>, <<"a">>, "v3", TRUE, TRUE, <<"c">>),
    Found(7, <<"!">>, <<"!">>, "v2", FALSE, FALSE, <<"c">>),
    Found(8, <<"!">>, <<"!">>, "v3", FALSE, TRUE, <<"a">>) }

SameNameDifferentContent == "same name, different content"
NotFoundInPool == "not found in Pool"

\* _pool_skill_hash_index(pool_dir), lines 329-363: keys, hashes_by_key, all_hashes
_pool_skill_hash_index(manifests) ==
    LET names(e) == {e.dir_name} \cup (IF e.front_name # Nothing /\ Get(e.front_name) # <<>>
                                       THEN {Get(e.front_name)} ELSE {})
        keysOf(e) == {_skill_key(raw) : raw \in names(e)} \ {<<>>}
        keys == UNION {keysOf(e) : e \in manifests}
    IN [keys |-> keys,
        hashes_by_key |-> [k \in keys |-> {sha256_file(e.body) : e \in {x \in manifests : k \in keysOf(x)}}],
        all_hashes |-> {sha256_file(e.body) : e \in manifests}]

\* _detect_unmanaged_reason looking for the hash only under an overlapping key
_detect_unmanaged_reason_bykey(item, display_name, index) ==
    LET digest == sha256_file(item.body)
        keys == {_skill_key(item.dir_name), _skill_key(display_name)} \ {<<>>}
        overlaps == {k \in keys : k \in index.keys}
    IN IF item.inside THEN Nothing
       ELSE IF overlaps # {}
       THEN IF \E k \in overlaps : digest \in index.hashes_by_key[k]
            THEN Nothing ELSE Some(SameNameDifferentContent)
       ELSE Some(NotFoundInPool)

\* _detect_unmanaged_reason(skill_dir, skill_md, display_name, ...), lines 516-547
_detect_unmanaged_reason(item, display_name, index) ==
    LET digest == sha256_file(item.body)
        keys == {_skill_key(item.dir_name), _skill_key(display_name)} \ {<<>>}
        overlaps == {k \in keys : k \in index.keys}
    IN IF item.inside THEN Nothing
       ELSE IF digest \in index.all_hashes THEN Nothing
       ELSE IF overlaps # {}
       THEN IF \E k \in overlaps : digest \in index.hashes_by_key[k]
            THEN Nothing ELSE Some(SameNameDifferentContent)
       ELSE Some(NotFoundInPool)

\* The display name of a row: its name, or the directory name when blank (line 604)
DisplayName(item) ==
    IF Strip(item.name, Whitespace) # <<>> THEN Strip(item.name, Whitespace) ELSE item.dir_name

\* _append_row over a list of items, lines 588-629: the rows and the seen manifests
RECURSIVE AppendRows(_, _, _, _)
AppendRows(items, index, rows, seen_md) ==
    IF items = <<>> THEN [rows |-> rows, seen_md |-> seen_md]
    ELSE LET item == Head(items)
             reason == _detect_unmanaged_reason(item, DisplayName(item), index)
         IN IF item.md \in seen_md \/ reason = Nothing
            THEN AppendRows(Tail(items), index, rows, seen_md)
            ELSE AppendRows(Tail(items), index,
                            Append(rows, [agent |-> LowerStr(Strip(item.agent, Whitespace)),
                                          name |-> DisplayName(item),
                                          skill_dir |-> item.dir_name,
                                          skill_md |-> item.md,
                                          reason |-> Get(reason)]),
                            seen_md \cup {item.md})

\* (agent, name, skill_dir) of one row below that of another
RowLess(r, q) ==
    \/ StrLess(r.agent, q.agent)
    \/ r.agent = q.agent /\ StrLess(r.name, q.name)
    \/ r.agent = q.agent /\ r.name = q.name /\ StrLess(r.skill_dir, q.skill_dir)

\* list.sort(key=...): stable insertion of a row into a sorted list
RECURSIVE InsertRow(_, _)
InsertRow(rows, r) ==
    IF rows = <<>> THEN <<r>>
    ELSE IF RowLess(r, Head(rows)) THEN <<r>> \o rows
    ELSE <<Head(rows)>> \o InsertRow(Tail(rows), r)

RECURSIVE SortRows(_)
SortRows(rows) ==
    IF rows = <<>> THEN <<>>
    ELSE InsertRow(SortRows(SubSeq(rows, 1, Len(rows) - 1)), rows[Len(rows)])

\* [x for x in items if x.target is want]
RECURSIVE WhereTarget(_, _)
WhereTarget(items, want) ==
    IF items = <<>> THEN <<>>
    ELSE IF Head(items).target = want THEN <<Head(items)>> \o WhereTarget(Tail(items), want)
    ELSE WhereTarget(Tail(items), want)

\* _detect_unmanaged_agent_skills(cfg, payload), lines 572-655: the rows of the
\* target directories first, then the inventory records outside them, sorted
DetectRows(manifests, items) ==
    LET index == _pool_skill_hash_index(manifests)
        first == AppendRows(WhereTarget(items, TRUE), index, <<>>, {})
        second == AppendRows(WhereTarget(items, FALSE), index, first.rows, first.seen_md)
    IN SortRows(second.rows)

_detect_unmanaged_agent_skills ==
    /\ unmanaged' = Some(DetectRows(pool_manifests, discovered))
    /\ UNCHANGED <<pool_manifests, discovered>>
    /\ UNCHANGED not_drift

\* The Pool and the skills found outside it become what a scan finds.
ScanFinds(manifests, items) ==
    /\ pool_manifests' = manifests
    /\ discovered' = items
    /\ unmanaged' = Nothing
    /\ UNCHANGED not_drift

\* The lists a scan may find: up to two skills, in any order.
DiscoveredLists ==
    {<<>>} \cup {<<i>> : i \in DiscoveredSkills}
           \cup {<<p[1], p[2]>> : p \in {q \in DiscoveredSkills \X DiscoveredSkills : q[1] # q[2]}}

InitDrift ==
    /\ pool_manifests = {}
    /\ discovered = <<>>
    /\ unmanaged = Nothing

NextDrift ==
    \/ \E ms \in SUBSET PoolManifests, items \in DiscoveredLists : ScanFinds(ms, items)
    \/ _detect_unmanaged_agent_skills

(***************************************************************************)
(* Drift detection: claims.                                                *)
(***************************************************************************)
\* A skill's class by the rule of the claim: managed on any hash match,
\* diverged on a key match without one, unmanaged otherwise.
DriftClass(item) ==
    LET hashes == {sha256_file(e.body) : e \in pool_manifests}
        pool_keys == UNION {{_skill_key(e.dir_name)} \cup
                            (IF e.front_name = Nothing THEN {} ELSE {_skill_key(Get(e.front_name))})
                            : e \in pool_manifests}
    IN IF sha256_file(item.body) \in hashes THEN "managed"
       ELSE IF _skill_key(item.dir_name) \in pool_keys \/ _skill_key(DisplayName(item)) \in pool_keys
       THEN "diverged"
       ELSE "unmanaged"

ReasonOf(class) == IF class = "diverged" THEN SameNameDifferentContent ELSE NotFoundInPool

\* The found skills that lie outside skills/ and dist/.
Outside == {discovered[i] : i \in {k \in 1..Len(discovered) : ~discovered[k].inside}}

IndexedSkill(rel_dir, name) == [rel_dir |-> rel_dir, name |-> name]

\* Skills a source may hold; relative directories are distinct.
SourceSkills == {
    IndexedSkill(<<"a">>, <<"b">>),
    IndexedSkill(<<"x", "/", "a">>, <<"a">>),
    IndexedSkill(<<"b", "/", "a">>, <<"a">>),
    IndexedSkill(<<"b">>, <<"x">>),
    IndexedSkill(<<"x", "/", "b">>, <<"b">>) }

\* index_repo(root), lines 115-131: the rows in the order of their paths
index_repo(skills) ==
    LET dirs == sorted({x.rel_dir : x \in skills})
    IN [i \in 1..Len(dirs) |-> CHOOSE x \in skills : x.rel_dir = dirs[i]]

\* str.endswith(suffix)
endswith(text, suffix) ==
    /\ Len(suffix) <= Len(text)
    /\ SubSeq(text, Len(text) - Len(suffix) + 1, Len(text)) = suffix

\* [x for x in items if x.rel_dir == selector]
RECURSIVE ByRelDir(_, _)
ByRelDir(items, selector) ==
    IF items = <<>> THEN <<>>
    ELSE (IF Head(items).rel_dir = selector THEN <<Head(items)>> ELSE <<>>)
             \o ByRelDir(Tail(items), selector)

\* [x for x in items if x.name == selector]
RECURSIVE ByName(_, _)
ByName(items, selector) ==
    IF items = <<>> THEN <<>>
    ELSE (IF Head(items).name = selector THEN <<Head(items)>> ELSE <<>>)
             \o ByName(Tail(items), selector)

\* [x for x in items if x.rel_dir.endswith(selector)]
RECURSIVE BySuffix(_, _)
BySuffix(items, selector) ==
    IF items = <<>> THEN <<>>
    ELSE (IF endswith(Head(items).rel_dir, selector) THEN <<Head(items)>> ELSE <<>>)
             \o BySuffix(Tail(items), selector)

RelDirsOf(items) == [i \in 1..Len(items) |-> items[i].rel_dir]

\* What _select_items returns or raises: the ValueError's message is one of
\* NoSelector, NameDuplicated (with the candidates it lists) and NoMatch.
Selected(items) == [ok |-> TRUE, items |-> items, error |-> "", candidates |-> <<>>]
ValueError(message, candidates) ==
    [ok |-> FALSE, items |-> <<>>, error |-> message, candidates |-> candidates]

\* _select_items trying the display name before the relative directory
_select_items_name_first(items, selector, fetch_all) ==
    IF fetch_all THEN Selected(items)
    ELSE IF selector = Nothing \/ Get(selector) = <<>> THEN ValueError("NoSelector", <<>>)
    ELSE LET by_name == ByName(items, Get(selector))
             exact_rel == ByRelDir(items, Get(selector))
             end_match == BySuffix(items, Get(selector))
         IN IF Len(by_name) = 1 THEN Selected(by_name)
            ELSE IF Len(by_name) > 1 THEN ValueError("NameDuplicated", RelDirsOf(by_name))
            ELSE IF exact_rel # <<>> THEN Selected(exact_rel)
            ELSE IF Len(end_match) = 1 THEN Selected(end_match)
            ELSE ValueError("NoMatch", <<>>)

\* _select_items(items, selector, fetch_all), lines 183-203
_select_items(items, selector, fetch_all) ==
    IF fetch_all THEN Selected(items)
    ELSE IF selector = Nothing \/ Get(selector) = <<>> THEN ValueError("NoSelector", <<>>)
    ELSE LET exact_rel == ByRelDir(items, Get(selector))
             by_name == ByName(items, Get(selector))
             end_match == BySuffix(items, Get(selector))
         IN IF exact_rel # <<>> THEN Selected(exact_rel)
            ELSE IF Len(by_name) = 1 THEN Selected(by_name)
            ELSE IF Len(by_name) > 1 THEN ValueError("NameDuplicated", RelDirsOf(by_name))
            ELSE IF Len(end_match) = 1 THEN Selected(end_match)
            ELSE ValueError("NoMatch", <<>>)

\* Selectors a caller may pass.
Selectors == {Nothing, Some(<<>>), Some(<<"a">>), Some(<<"b">>), Some(<<"x", "/", "a">>),
              Some(<<"/", "a">>), Some(<<"c">>)}

\* fetch_from_source lines 238-239: the source is indexed
SourceIndexed(skills) ==
    /\ indexed' = index_repo(skills)
    /\ last_select' = Nothing
    /\ UNCHANGED not_select

\* fetch_from_source line 239: a selector is resolved against the index
SelectItems(selector, fetch_all) ==
    /\ last_select' = Some([selector |-> selector, fetch_all |-> fetch_all,
                            outcome |-> _select_items(indexed, selector, fetch_all)])
    /\ UNCHANGED indexed
    /\ UNCHANGED not_select

InitSelect ==
    /\ indexed = <<>>
    /\ last_select = Nothing

NextSelect ==
    \/ \E skills \in SUBSET SourceSkills : SourceIndexed(skills)
    \/ \E sel \in Selectors, fetch_all \in BOOLEAN : SelectItems(sel, fetch_all)

(***************************************************************************)
(* Selector resolution: claims.                                            *)
(***************************************************************************)
\* A call that resolves a selector (not --all, and a selector was given).
Resolving ==
    /\ last_select # Nothing
    /\ ~Get(last_select).fetch_all
    /\ Get(last_select).selector # Nothing
    /\ Get(Get(last_select).selector) # <<>>

\* The indexed skills matching at each level.
ExactMatches(sel) == {x \in set(indexed) : x.rel_dir = sel}
NameMatches(sel) == {x \in set(indexed) : x.name = sel}
SuffixMatches(sel) ==
    {x \in set(indexed) : \E k \in 0..Len(x.rel_dir) : SubSeq(x.rel_dir, k + 1, Len(x.rel_dir)) = sel}

\* C19: a skill whose relative directory equals the selector is returned
\* whatever names and suffixes also match; otherwise a single skill with that
\* display name is returned, and several of them make the selection fail
\* listing all their relative directories; only when no name matches is a
\* unique suffix match returned.
C19_SelectorPrecedence ==
    Resolving =>
        LET sel == Get(Get(last_select).selector)
            out == Get(last_select).outcome
            exact == ExactMatches(sel)
            named == NameMatches(sel)
            ending == SuffixMatches(sel)
        IN /\ exact # {} => out.ok /\ set(out.items) = exact
           /\ (exact = {} /\ Cardinality(named) = 1) => out.ok /\ set(out.items) = named
           /\ (exact = {} /\ Cardinality(named) > 1) =>
                 /\ ~out.ok
                 /\ set(out.candidates) = {x.rel_dir : x \in named}
                 /\ Len(out.candidates) = Cardinality(named)
           /\ (exact = {} /\ named = {} /\ Cardinality(ending) = 1) =>
                 out.ok /\ set(out.items) = ending

\* The selector is one skill's relative directory, two other skills' display
\* name and their path suffix; the exact match was returned.
C19_Witness ==
    /\ Resolving
    /\ Get(Get(last_select).selector) = <<"a">>
    /\ Cardinality(ExactMatches(<<"a">>)) = 1
    /\ Cardinality(NameMatches(<<"a">>)) = 2
    /\ Cardinality(SuffixMatches(<<"a">>)) = 3
    /\ Get(last_select).outcome.ok
    /\ Len(Get(last_select).outcome.items) = 1

\* C20: when no skill matches at any level the error is the not-found error,
\* and whenever the level that decides matches more than one skill, display
\* names or path suffixes, the error is the ambiguity error and carries the
\* relative directories of the candidates.
C20_NotFoundOrAmbiguous ==
    Resolving =>
        LET sel == Get(Get(last_select).selector)
            out == Get(last_select).outcome
            exact == ExactMatches(sel)
            named == NameMatches(sel)
            ending == SuffixMatches(sel)
        IN /\ (exact = {} /\ named = {} /\ ending = {}) =>
                 ~out.ok /\ out.error = "NoMatch"
           /\ (exact = {} /\ Cardinality(named) > 1) =>
                 /\ ~out.ok /\ out.error = "NameDuplicated"
                 /\ set(out.candidates) = {x.rel_dir : x \in named}
           /\ (exact = {} /\ named = {} /\ Cardinality(ending) > 1) =>
                 /\ ~out.ok /\ out.error # "NoMatch"
                 /\ set(out.candidates) = {x.rel_dir : x \in ending}

(***************************************************************************)
(* promote.py: promote_skill step by step, for calls that overlap and for  *)
(* a call that is interrupted while shutil.copytree runs.                  *)
(***************************************************************************)
Callers == 1..MaxCallers
\* Two source directories whose manifests differ and whose skill id is the same
RaceSources == {[dir |-> <<"x">>, manifest |-> [name |-> Some(<<"A", " ">>), body |-> "v1"]],
                [dir |-> <<"A">>, manifest |-> [name |-> Nothing, body |-> "v1"]]}
\* A manifest that has been opened for writing and not written yet
Truncated == [name |-> Nothing, body |-> ""]
NoCall == [pc |-> "idle", src |-> Nothing, dst |-> <<>>, found |-> "", md |-> "todo",
           aux |-> FALSE, result |-> Nothing]
OriginOf(src) == [source_path |-> src.dir, sha256 |-> sha256_file(src.manifest)]

\* os.makedirs(dst, exist_ok=True)
makedirs_exist_ok(pool, dst) == FALSE

\* shutil.copytree, line 100: os.makedirs(dst) raises FileExistsError when the
\* destination exists
makedirs_raises(pool, dst) == Exists(pool, dst)

\* Lines 64-98: the source is read and the destination settled on
Call(c, src) ==
    /\ caller[c].pc = "idle"
    /\ \A k \in Callers : k < c => caller[k].pc # "idle"
    /\ LET skill_id == SkillId(src.dir, src.manifest)
           target == PromoteTarget(race_pool, skill_id, sha256_file(src.manifest), clock)
           base == BaseName(skill_id)
           found == IF ~Exists(race_pool, base) THEN "absent"
                    ELSE IF \E k \in Callers : caller[k].pc = "killed" /\ caller[k].dst = base
                    THEN "interrupted"
                    ELSE "present"
       IN caller' = [caller EXCEPT ![c] =
              IF target.skip
              THEN [NoCall EXCEPT !.pc = "returned", !.src = Some(src), !.dst = target.dst,
                                  !.found = found,
                                  !.result = Some(PromoteResult(TRUE, "skip_same_hash", src.dir, target.dst))]
              ELSE [NoCall EXCEPT !.pc = "makedirs", !.src = Some(src), !.dst = target.dst,
                                  !.found = found]]
    /\ UNCHANGED <<race_pool, race_log>>
    /\ UNCHANGED not_race

\* copytree's first step, line 100
Makedirs(c) ==
    /\ caller[c].pc = "makedirs"
    /\ LET dst == caller[c].dst
       IN IF makedirs_raises(race_pool, dst)
          THEN /\ caller' = [caller EXCEPT ![c].pc = "returned",
                        ![c].result = Some(PromoteResult(FALSE, "FileExistsError",
                                                         Get(caller[c].src).dir, dst))]
               /\ UNCHANGED race_pool
          ELSE /\ caller' = [caller EXCEPT ![c].pc = "copy"]
               /\ race_pool' = IF Exists(race_pool, dst) THEN race_pool
                               ELSE race_pool @@ (dst :> PoolDir(Nothing, Nothing, Nothing))
    /\ UNCHANGED race_log
    /\ UNCHANGED not_race

\* copytree copies one more file, or opens the manifest for writing; the
\* order of the files is the order os.scandir lists them in
CopyFile(c) ==
    /\ caller[c].pc = "copy"
    /\ LET dst == caller[c].dst
           src == Get(caller[c].src)
       IN \/ /\ caller[c].md = "todo"
             /\ race_pool' = [race_pool EXCEPT ![dst].SKILL_md = Some(Truncated)]
             /\ caller' = [caller EXCEPT ![c].md = "open"]
          \/ /\ caller[c].md = "open"
             /\ race_pool' = [race_pool EXCEPT ![dst].SKILL_md = Some(src.manifest)]
             /\ caller' = [caller EXCEPT ![c].md = "written"]
          \/ /\ ~caller[c].aux
             /\ race_pool' = [race_pool EXCEPT ![dst].aux = Some(AuxOf(src.dir))]
             /\ caller' = [caller EXCEPT ![c].aux = TRUE]
    /\ UNCHANGED race_log
    /\ UNCHANGED not_race

\* The process is interrupted while copytree runs
Interrupt(c) ==
    /\ caller[c].pc = "copy"
    /\ caller' = [caller EXCEPT ![c].pc = "killed"]
    /\ UNCHANGED <<race_pool, race_log>>
    /\ UNCHANGED not_race

\* Lines 102-111: copytree has returned, the provenance file is written
WriteOrigin(c) ==
    /\ caller[c].pc = "copy"
    /\ caller[c].md = "written"
    /\ caller[c].aux
    /\ race_pool' = [race_pool EXCEPT ![caller[c].dst].origin = Some(OriginOf(Get(caller[c].src)))]
    /\ caller' = [caller EXCEPT ![c].pc = "log"]
    /\ UNCHANGED race_log
    /\ UNCHANGED not_race

\* Lines 112-130: the log row is appended and the result returned
AppendLog(c) ==
    /\ caller[c].pc = "log"
    /\ LET src == Get(caller[c].src)
       IN /\ race_log' = Append(race_log, [action |-> "promote", source |-> src.dir,
                                           destination |-> caller[c].dst,
                                           sha256 |-> sha256_file(src.manifest)])
          /\ caller' = [caller EXCEPT ![c].pc = "returned",
                    ![c].result = Some(PromoteResult(TRUE, "copied", src.dir, caller[c].dst))]
    /\ UNCHANGED race_pool
    /\ UNCHANGED not_race

InitRace ==
    /\ race_pool = <<>>
    /\ race_log = <<>>
    /\ caller = [c \in Callers |-> NoCall]

NextRace ==
    \/ \E c \in Callers, src \in RaceSources : Call(c, src)
    \/ \E c \in Callers : Makedirs(c)
    \/ \E c \in Callers : CopyFile(c)
    \/ \E c \in Callers : Interrupt(c)
    \/ \E c \in Callers : WriteOrigin(c)
    \/ \E c \in Callers : AppendLog(c)
    \/ Tick

(***************************************************************************)
(* Overlapping and interrupted promotions: claims.                         *)
(***************************************************************************)
\* The files of a destination that are there are those of the source src
HoldsOnly(dir, src) ==
    /\ dir.SKILL_md \in {Nothing, Some(Truncated), Some(src.manifest)}
    /\ dir.aux \in {Nothing, Some(AuxOf(src.dir))}
    /\ dir.origin \in {Nothing, Some(OriginOf(src))}

\* C22: a promotion interrupted while the files are copied leaves a directory
\* without provenance, and a later promotion of the same id that finds it
\* never answers skip_same_hash for it: it settles on a versioned name,
\* wherever the copy was interrupted.
C22_InterruptedCopyNeverAdopted ==
    /\ \A c \in Callers : caller[c].pc = "killed" => race_pool[caller[c].dst].origin = Nothing
    /\ \A c \in Callers : caller[c].found = "interrupted" =>
          /\ caller[c].dst # BaseName(SkillId(Get(caller[c].src).dir, Get(caller[c].src).manifest))
          /\ caller[c].result # Nothing => Get(caller[c].result).action # "skip_same_hash"

\* C24: when calls for the same id and different manifests overlap, every
\* destination holds the files of one source only; a call that answers
\* "copied" names a destination that holds its source, complete, and two
\* calls with different sources that both succeed name different destinations.
C24_NoSilentOverwrite ==
    /\ \A dst \in DOMAIN race_pool : \E src \in RaceSources : HoldsOnly(race_pool[dst], src)
    /\ \A c \in Callers : (caller[c].result # Nothing /\ Get(caller[c].result).success) =>
          LET r == Get(caller[c].result)
              src == Get(caller[c].src)
          IN /\ Exists(race_pool, r.destination)
             /\ race_pool[r.destination].SKILL_md = Some(src.manifest)
             /\ r.action = "copied" =>
                   race_pool[r.destination] = PoolDir(Some(src.manifest), Some(AuxOf(src.dir)),
                                                      Some(OriginOf(src)))
    /\ \A c, k \in Callers :
          (/\ c # k
           /\ caller[c].result # Nothing /\ caller[k].result # Nothing
           /\ caller[c].src # caller[k].src
           /\ Get(caller[c].result).success /\ Get(caller[k].result).success) =>
              Get(caller[c].result).destination # Get(caller[k].result).destination

\* Two calls with different manifests settled on the same destination; one
\* copied into it and the other was refused by makedirs.
C24_Witness ==
    \E c, k \in Callers :
        /\ caller[c].src # caller[k].src
        /\ caller[c].pc = "returned" /\ caller[k].pc = "returned"
        /\ caller[c].dst = caller[k].dst
        /\ Get(caller[c].result).action = "copied"
        /\ Get(caller[k].result).action = "FileExistsError"

(***************************************************************************)
(* tracking.py: check_tracked_source step by step, one call persisting     *)
(* while another one reads.                                                *)
(***************************************************************************)
\* json.dumps(snap): the text of a snapshot, its items between the brackets
json_dumps(items) == <<"{", items, "}">>

\* json.loads(text): the document, or Nothing for json.JSONDecodeError
json_loads(text) ==
    IF Len(text) = 3 /\ text[1] = "{" /\ text[3] = "}" THEN Some(text[2]) ELSE Nothing

\* _load_prev_items(path) on the file's text, lines 44-54
_load_prev_text(file) ==
    IF file = Nothing THEN <<>>
    ELSE IF json_loads(Get(file)) = Nothing THEN <<>>
    ELSE SelectSeq(Get(json_loads(Get(file))), NonBlank)

\* The call that persists (update_snapshot=True) and the call that only reads
Persisting == "persisting"
Reading == "reading"
Checkers == {Persisting, Reading}
\* What index_source finds when a check begins
Currents == {<<<<"a">>>>, <<<<"a">>, <<"b">>>>}
NoCheck == [pc |-> "idle", current |-> <<>>, prev |-> Nothing, added |-> <<>>, removed |-> <<>>,
            basis |-> Nothing]

\* Lines 138-139: index_source and the sorted list of what it found
Index(k, current) ==
    /\ checker[k].pc \in {"idle", "returned"}
    /\ n_checks < MaxChecks
    /\ n_checks' = n_checks + 1
    /\ checker' = [checker EXCEPT ![k] = [NoCheck EXCEPT !.pc = "load", !.current = current]]
    /\ UNCHANGED <<snap_text, whole>>
    /\ UNCHANGED not_snapio

\* Lines 140-146: the previous items are read and compared. basis keeps what
\* the file held in whole before, and what a write in progress is putting there.
Load(k) ==
    /\ checker[k].pc = "load"
    /\ LET prev == _load_prev_text(snap_text)
           prev_set == set(prev)
           curr_set == set(checker[k].current)
       IN checker' = [checker EXCEPT
              ![k].pc = IF k = Persisting THEN "open" ELSE "returned",
              ![k].prev = Some(prev),
              ![k].added = sorted(curr_set \ prev_set),
              ![k].removed = sorted(prev_set \ curr_set),
              ![k].basis = Some([old |-> whole,
                                 new |-> IF checker[Persisting].pc = "write"
                                         THEN Some(checker[Persisting].current) ELSE Nothing])]
    /\ UNCHANGED <<snap_text, whole, n_checks>>
    /\ UNCHANGED not_snapio

\* Lines 67-70, Path.write_text: the file is opened for writing, which
\* creates it or cuts it to nothing
Open(k) ==
    /\ checker[k].pc = "open"
    /\ snap_text' = Some(<<>>)
    /\ checker' = [checker EXCEPT ![k].pc = "write"]
    /\ UNCHANGED <<whole, n_checks>>
    /\ UNCHANGED not_snapio

\* Lines 67-70, Path.write_text: the text is written and the file closed
Write(k) ==
    /\ checker[k].pc = "write"
    /\ snap_text' = Some(json_dumps(checker[k].current))
    /\ whole' = Some(checker[k].current)
    /\ checker' = [checker EXCEPT ![k].pc = "returned"]
    /\ UNCHANGED n_checks
    /\ UNCHANGED not_snapio

InitSnapIO ==
    /\ snap_text = Nothing
    /\ whole = Nothing
    /\ checker = [k \in Checkers |-> NoCheck]
    /\ n_checks = 0

NextSnapIO ==
    \/ \E k \in Checkers, current \in Currents : Index(k, current)
    \/ \E k \in Checkers : Load(k)
    \/ Open(Persisting)
    \/ Write(Persisting)

(***************************************************************************)
(* A snapshot read while it is written: claims.                            *)
(***************************************************************************)
\* C23: a check that reads the snapshot while another check persists it
\* compares against the whole old set or the whole new set, never against an
\* empty or cut-off one.
C23_SnapshotNeverPartial ==
    \A k \in Checkers : checker[k].prev # Nothing =>
        LET b == Get(checker[k].basis)
        IN \/ Get(checker[k].prev) = (IF b.old = Nothing THEN <<>> ELSE Get(b.old))
           \/ b.new # Nothing /\ Get(checker[k].prev) = Get(b.new)

(***************************************************************************)
(* indexing.py: materialize_source                                         *)
(***************************************************************************)
\* str.startswith(prefix)
startswith(text, prefix) ==
    Len(prefix) <= Len(text) /\ SubSeq(text, 1, Len(prefix)) = prefix

\* _is_git_source(source), lines 37-44
_is_git_source(source) ==
    LET s0 == Strip(source, Whitespace)
    IN \/ startswith(s0, <<"h", "t", "t", "p", ":", "/", "/">>)
       \/ startswith(s0, <<"h", "t", "t", "p", "s", ":", "/", "/">>)
       \/ startswith(s0, <<"g", "i", "t", "@">>)
       \/ endswith(s0, <<".", "g", "i", "t">>)

\* Directories on the local disk: a plain one, and one named like a repository.
LocalDirs == {<<"d">>, <<"d", ".", "g", "i", "t">>}
\* Locators a caller may pass: the local directories, two remote forms, and a
\* path that is neither.
Locators == LocalDirs \cup {<<"r", ".", "g", "i", "t">>, <<" ", "g", "i", "t", "@", "h">>, <<"n">>}

Scopes == 1..MaxScopes
NoScope == [pc |-> "out", source |-> <<>>, tmp_root |-> Nothing, cloned |-> FALSE, raised |-> ""]

\* The finally clause running only when the scope is left without an exception
rmtree_on_return(dirs, tmp_root, how) == IF how = "return" THEN dirs \ {tmp_root} ELSE dirs

\* Lines 111-112: finally: shutil.rmtree(tmp_root, ignore_errors=True), on
\* whatever way the try block is left
rmtree(dirs, tmp_root, how) == dirs \ {tmp_root}

\* Lines 70-84: entering "with materialize_source(source)" up to the checkout
Enter(s, source) ==
    /\ scope[s].pc = "out"
    /\ \A k \in Scopes : k < s => scope[k].pc # "out"
    /\ IF source \in local_dirs
       THEN \* lines 71-74: the directory itself is yielded
            /\ scope' = [scope EXCEPT ![s] = [NoScope EXCEPT !.pc = "body", !.source = source]]
            /\ UNCHANGED <<tmp_dirs, n_tmp>>
       ELSE IF ~_is_git_source(source)
       THEN \* lines 77-78
            /\ scope' = [scope EXCEPT ![s] = [NoScope EXCEPT !.pc = "left", !.source = source,
                                                            !.raised = "FileNotFoundError"]]
            /\ UNCHANGED <<tmp_dirs, n_tmp>>
       ELSE \* lines 80-84: mkdtemp, then git clone is started
            /\ n_tmp' = n_tmp + 1
            /\ tmp_dirs' = tmp_dirs \cup {n_tmp + 1}
            /\ scope' = [scope EXCEPT ![s] = [NoScope EXCEPT !.pc = "clone", !.source = source,
                                                            !.tmp_root = Some(n_tmp + 1)]]
    /\ UNCHANGED local_dirs
    /\ UNCHANGED not_mat

\* Lines 84-110: git clone ends; on a non-zero return code RuntimeError is
\* raised inside the try block, otherwise the checkout is yielded
Clone(s, returncode) ==
    /\ scope[s].pc = "clone"
    /\ IF returncode # 0
       THEN /\ tmp_dirs' = rmtree(tmp_dirs, Get(scope[s].tmp_root), "raise")
            /\ scope' = [scope EXCEPT ![s].pc = "left", ![s].raised = "RuntimeError"]
       ELSE /\ scope' = [scope EXCEPT ![s].pc = "body", ![s].cloned = TRUE]
            /\ UNCHANGED tmp_dirs
    /\ UNCHANGED <<local_dirs, n_tmp>>
    /\ UNCHANGED not_mat

\* The caller's block ends, by reaching its end or by raising: the generator
\* is resumed at the yield (line 74 or line 110)
Leave(s, how) ==
    /\ scope[s].pc = "body"
    /\ tmp_dirs' = IF scope[s].tmp_root = Nothing THEN tmp_dirs
                   ELSE rmtree(tmp_dirs, Get(scope[s].tmp_root), how)
    /\ scope' = [scope EXCEPT ![s].pc = "left",
                              ![s].raised = IF how = "raise" THEN "caller" ELSE ""]
    /\ UNCHANGED <<local_dirs, n_tmp>>
    /\ UNCHANGED not_mat

InitMaterialize ==
    /\ local_dirs = LocalDirs
    /\ tmp_dirs = {}
    /\ n_tmp = 0
    /\ scope = [s \in Scopes |-> NoScope]

NextMaterialize ==
    \/ \E s \in Scopes, source \in Locators : Enter(s, source)
    \/ \E s \in Scopes, returncode \in {0, 128} : Clone(s, returncode)
    \/ \E s \in Scopes, how \in {"return", "raise"} : Leave(s, how)

(***************************************************************************)
(* materialize_source: claims.                                             *)
(***************************************************************************)
\* C21: for a remote locator the temporary checkout directory is gone once
\* the scope has been left, whether the checkout failed, the caller's block
\* ended or the caller's block raised; for a locator that is an existing local
\* directory, also one named like a remote, no temporary directory is made,
\* no checkout is run and the directory is never deleted.
C21_TempDirRemovedOnEveryExit ==
    /\ \A s \in Scopes :
          /\ (scope[s].pc = "left" /\ scope[s].tmp_root # Nothing) =>
                Get(scope[s].tmp_root) \notin tmp_dirs
          /\ (scope[s].pc # "out" /\ scope[s].source \in LocalDirs) =>
                /\ scope[s].tmp_root = Nothing
                /\ ~scope[s].cloned
                /\ scope[s].raised \in {"", "caller"}
          /\ (scope[s].pc # "out" /\ scope[s].source \notin LocalDirs
                /\ _is_git_source(scope[s].source)) => scope[s].tmp_root # Nothing
    /\ local_dirs = LocalDirs

\* One scope over a remote was left by an exception of the caller's block,
\* another by a failed checkout, and both temporary directories were made.
C21_Witness ==
    /\ n_tmp = 2
    /\ \E s, k \in Scopes :
          /\ scope[s].pc = "left" /\ scope[s].cloned /\ scope[s].raised = "caller"
          /\ scope[k].pc = "left" /\ scope[k].raised = "RuntimeError"

(***************************************************************************)
(* indexing.py: fetch_from_source, importing from a local source           *)
(***************************************************************************)
\* index_repo over the workspace used as a source: its skill directories
WorkspaceIndex ==
    index_repo({IndexedSkill(d, NameOr(parse_name(Get(workspace[d].SKILL_md)), d)) :
                    d \in {e \in SrcDirs : workspace[e].SKILL_md # Nothing}})

\* _update_origin(dst_path, rel_dir), lines 217-235: the provenance side-file
\* is read if it exists, the import fields are set, and it is written back
_update_origin(pool, dst, rel_dir, now) ==
    LET existing == IF pool[dst].origin = Nothing THEN <<>> ELSE Get(pool[dst].origin)
        imported == [external_source |-> "workspace", external_rel_dir |-> rel_dir,
                     imported_via |-> "fetch_from_source", imported_at |-> strftime(now)]
    IN [pool EXCEPT ![dst].origin = Some(imported @@ existing)]

\* Lines 242-253: the loop over the selected skills; acc is what the calls so
\* far left: the Pool, the promotion log, the results and the exception raised.
RECURSIVE ImportSelected(_, _, _)
ImportSelected(selected, acc, now) ==
    IF selected = <<>> \/ acc.raised # "" THEN acc
    ELSE LET item == Head(selected)
             call == PromoteCall(item.rel_dir, acc.pool, acc.promotions, now)
             result == call.result
         IN ImportSelected(Tail(selected),
                IF result.success
                THEN [pool |-> _update_origin(call.pool, result.destination, item.rel_dir, now),
                      promotions |-> call.promotions,
                      results |-> Append(acc.results, result),
                      raised |-> ""]
                ELSE [pool |-> call.pool,
                      promotions |-> call.promotions,
                      results |-> Append(acc.results, result),
                      raised |-> IF result.action = "FileExistsError"
                                 THEN "FileExistsError" ELSE "RuntimeError"],
                now)

\* fetch_from_source(source, pool_dir, selector, fetch_all), lines 206-254, on
\* a source that is the local workspace directory
fetch_from_source(selector, fetch_all) ==
    LET items == WorkspaceIndex
        selection == _select_items(items, selector, fetch_all)
        start == [pool |-> pool_skills, promotions |-> promotions, results |-> <<>>,
                  raised |-> IF selection.ok THEN "" ELSE "ValueError"]
        end == ImportSelected(selection.items, start, clock)
    IN /\ n_promote + Len(selection.items) <= MaxPromotes
       /\ n_promote' = n_promote + Len(end.results)
       /\ pool_skills' = end.pool
       /\ promotions' = end.promotions
       /\ last_fetch' = Some([selector |-> selector, fetch_all |-> fetch_all,
                              pool_before |-> pool_skills, pool_after |-> end.pool,
                              log_before |-> promotions, log_after |-> end.promotions,
                              results |-> end.results, raised |-> end.raised])
       /\ IF end.results = <<>>
          THEN UNCHANGED <<last_promote, prev_promote>>
          ELSE LET n == Len(end.results)
                   rec(k) == [dir |-> selection.items[k].rel_dir,
                              src |-> workspace[selection.items[k].rel_dir],
                              now |-> clock,
                              pool_before |-> IF k = 1 THEN pool_skills
                                              ELSE ImportSelected(SubSeq(selection.items, 1, k - 1),
                                                                  start, clock).pool,
                              result |-> end.results[k]]
               IN /\ last_promote' = Some(rec(n))
                  /\ prev_promote' = IF n > 1 THEN Some(rec(n - 1)) ELSE last_promote
       /\ UNCHANGED <<workspace, clock>>
       /\ UNCHANGED not_fetch

\* What a caller may ask for: one skill by its relative directory, or all.
FetchSelectors == {Some(d) : d \in SrcDirs}

InitFetch == last_fetch = Nothing

NextFetch ==
    \/ \E sel \in FetchSelectors : fetch_from_source(sel, FALSE)
    \/ fetch_from_source(Nothing, TRUE)
    \/ \E d \in Edited : EditSkill(d)
    \/ Tick

(***************************************************************************)
(* Import: claims.                                                         *)
(***************************************************************************)
\* The last import promoted at least one skill and every promotion ended in
\* skip_same_hash.
OnlySkipped ==
    /\ last_fetch # Nothing
    /\ Get(last_fetch).results # <<>>
    /\ \A k \in 1..Len(Get(last_fetch).results) :
          Get(last_fetch).results[k].action = "skip_same_hash"

\* C25: an import whose promotion resolves to skip_same_hash writes nothing
\* under the Pool: the skills directory, with the provenance side-file of the
\* existing entry, and the promotion log are as they were before the call.
C25_SkippedImportWritesNothing ==
    OnlySkipped =>
        /\ Get(last_fetch).pool_after = Get(last_fetch).pool_before
        /\ Get(last_fetch).log_after = Get(last_fetch).log_before

(***************************************************************************)
(* web.py: the locks of the job registry                                   *)
(***************************************************************************)
LockJobs == 1..MaxLockJobs
\* The threads: the request thread that runs _start_job for job j, the
\* _worker thread of job j, and a thread that serves poll requests.
Starter(j) == <<"start", j>>
WorkerOf(j) == <<"worker", j>>
Poller == <<"poll", 0>>
Threads == {Starter(j) : j \in LockJobs} \cup {WorkerOf(j) : j \in LockJobs} \cup {Poller}
Free == <<>>
At(label, i, list) == [pc |-> label, i |-> i, list |-> list]

\* Lock.acquire() / entering "with lock:": blocks until the lock is free
Acquire(t, l, next) ==
    /\ lock[l] = Free
    /\ lock' = [lock EXCEPT ![l] = t]
    /\ thread' = [thread EXCEPT ![t] = next]

\* Leaving "with lock:"
Release(t, l, next) ==
    /\ lock[l] = t
    /\ lock' = [lock EXCEPT ![l] = Free]
    /\ thread' = [thread EXCEPT ![t] = next]

\* job.status in {"success", "error"}: _worker has left lines 191-194 / 198-201
Finished(j) == thread[WorkerOf(j)].pc \in {"log_end_wait", "log_end_hold", "done"}

\* _job_snapshot asking for _JOBS_LOCK inside job.lock
_job_snapshot_locks_registry(j) == {0}

\* The locks _job_snapshot takes inside "with job.lock", lines 209-224: none
_job_snapshot_locks(j) == {}

\* A request thread enters _start_job (jobs are numbered in submission order).
Submit(j) ==
    /\ thread[Starter(j)].pc = "idle"
    /\ \A k \in LockJobs : k < j => thread[Starter(k)].pc # "idle"
    /\ thread' = [thread EXCEPT ![Starter(j)] = At("register_wait", 0, <<>>)]
    /\ UNCHANGED <<lock, registry, polls>>
    /\ UNCHANGED not_lock

\* _start_job lines 178-180, then _trim_jobs lines 157-173, then line 204
StartJobStep(j) ==
    LET t == Starter(j)
        at == thread[t]
    IN /\ \/ /\ at.pc = "register_wait"                      \* line 178
             /\ Acquire(t, 0, At("register_hold", 0, <<>>))
             /\ UNCHANGED registry
          \/ /\ at.pc = "register_hold"                      \* lines 179-180
             /\ registry' = Append(registry, j)
             /\ Release(t, 0, At("trim_wait", 0, <<>>))
          \/ /\ at.pc = "trim_wait"                          \* line 158
             /\ Acquire(t, 0, At("trim_loop", 1, registry))
             /\ UNCHANGED registry
          \/ /\ at.pc = "trim_loop"                          \* lines 159-168
             /\ IF Len(registry) <= _MAX_JOBS \/ at.i > Len(at.list)
                THEN /\ Release(t, 0, At("spawn", 0, <<>>))
                     /\ UNCHANGED registry
                ELSE IF at.list[at.i] \notin set(registry)
                THEN /\ thread' = [thread EXCEPT ![t] = At("trim_loop", at.i + 1, at.list)]
                     /\ UNCHANGED <<lock, registry>>
                ELSE /\ thread' = [thread EXCEPT ![t] = At("trim_job_wait", at.i, at.list)]
                     /\ UNCHANGED <<lock, registry>>
          \/ /\ at.pc = "trim_job_wait"                      \* line 169
             /\ Acquire(t, at.list[at.i], At("trim_job_hold", at.i, at.list))
             /\ UNCHANGED registry
          \/ /\ at.pc = "trim_job_hold"                      \* lines 170-173
             /\ Release(t, at.list[at.i], At("trim_loop", at.i + 1, at.list))
             /\ registry' = IF Finished(at.list[at.i])
                            THEN Remove(registry, at.list[at.i]) ELSE registry
          \/ /\ at.pc = "spawn"                              \* line 204
             /\ thread' = [thread EXCEPT ![t] = At("done", 0, <<>>),
                                         ![WorkerOf(j)] = At("running_wait", 0, <<>>)]
             /\ UNCHANGED <<lock, registry>>
       /\ UNCHANGED polls
       /\ UNCHANGED not_lock

\* _worker, lines 183-202: four sections under job.lock, the runner between
\* the second and the third
WorkerStep(j) ==
    LET t == WorkerOf(j)
        at == thread[t]
    IN /\ \/ /\ at.pc = "running_wait"                       \* line 184
             /\ Acquire(t, j, At("running_hold", 0, <<>>))
          \/ /\ at.pc = "running_hold"                       \* lines 185-186
             /\ Release(t, j, At("log_start_wait", 0, <<>>))
          \/ /\ at.pc = "log_start_wait"                     \* line 187 (153)
             /\ Acquire(t, j, At("log_start_hold", 0, <<>>))
          \/ /\ at.pc = "log_start_hold"                     \* line 154, then the runner
             /\ Release(t, j, At("finish_wait", 0, <<>>))
          \/ /\ at.pc = "finish_wait"                        \* lines 191 and 198
             /\ Acquire(t, j, At("finish_hold", 0, <<>>))
          \/ /\ at.pc = "finish_hold"                        \* lines 192-194 and 199-201
             /\ Release(t, j, At("log_end_wait", 0, <<>>))
          \/ /\ at.pc = "log_end_wait"                       \* lines 195 and 202 (153)
             /\ Acquire(t, j, At("log_end_hold", 0, <<>>))
          \/ /\ at.pc = "log_end_hold"                       \* line 154
             /\ Release(t, j, At("done", 0, <<>>))
       /\ UNCHANGED <<registry, polls>>
       /\ UNCHANGED not_lock

\* A poll request for job j arrives: api_job_detail, line 3127.
PollArrives(j) ==
    /\ thread[Poller].pc = "idle"
    /\ polls < MaxPolls
    /\ thread' = [thread EXCEPT ![Poller] = At("get_wait", j, <<>>)]
    /\ UNCHANGED <<lock, registry, polls>>
    /\ UNCHANGED not_lock

\* api_job_detail lines 3128-3131: _get_job (227-229), then _job_snapshot (208-224)
PollStep ==
    LET t == Poller
        at == thread[t]
    IN /\ \/ /\ at.pc = "get_wait"                           \* line 228
             /\ Acquire(t, 0, At("get_hold", at.i, <<>>))
             /\ UNCHANGED polls
          \/ /\ at.pc = "get_hold"                           \* line 229, then 3129-3131
             /\ IF at.i \in set(registry)
                THEN /\ Release(t, 0, At("snapshot_wait", at.i, <<>>))
                     /\ UNCHANGED polls
                ELSE /\ Release(t, 0, At("idle", 0, <<>>))
                     /\ polls' = polls + 1
          \/ /\ at.pc = "snapshot_wait"                      \* line 209
             /\ Acquire(t, at.i, At("snapshot_hold", at.i, <<>>))
             /\ UNCHANGED polls
          \/ /\ at.pc = "snapshot_hold"                      \* lines 210-224
             /\ \A l \in _job_snapshot_locks(at.i) : lock[l] = Free
             /\ Release(t, at.i, At("idle", 0, <<>>))
             /\ polls' = polls + 1
       /\ UNCHANGED registry
       /\ UNCHANGED not_lock

InitLocks ==
    /\ lock = [l \in 0..MaxLockJobs |-> Free]
    /\ thread = [t \in Threads |-> At(IF t[1] = "worker" THEN "none" ELSE "idle", 0, <<>>)]
    /\ registry = <<>>
    /\ polls = 0

NextLocks ==
    \/ \E j \in LockJobs : Submit(j)
    \/ \E j \in LockJobs : StartJobStep(j)
    \/ \E j \in LockJobs : WorkerStep(j)
    \/ \E j \in LockJobs : PollArrives(j)
    \/ PollStep

(***************************************************************************)
(* Locks: claims.                                                          *)
(***************************************************************************)
\* The lock a thread is blocked on, if any.
WaitsFor(t) ==
    LET at == thread[t]
    IN IF at.pc \in {"register_wait", "trim_wait", "get_wait"} THEN {0}
       ELSE IF at.pc = "trim_job_wait" THEN {at.list[at.i]}
       ELSE IF at.pc = "snapshot_wait" THEN {at.i}
       ELSE IF at.pc = "snapshot_hold" THEN _job_snapshot_locks(at.i)
       ELSE IF at.pc \in {"running_wait", "log_start_wait", "finish_wait", "log_end_wait"}
       THEN {t[2]}
       ELSE {}

\* C27: the job registry cannot deadlock: no thread is left waiting for
\* _JOBS_LOCK or for a job's lock (every request is granted, so that in the
\* end nobody waits), and _JOBS_LOCK is never requested or taken by a thread
\* that holds a job's lock: the only thread holding both is a trim, which
\* took _JOBS_LOCK first.
C27_NoDeadlock ==
    /\ <>[](\A t \in Threads : WaitsFor(t) = {})
    /\ [](\A t \in Threads : \A j \in LockJobs :
             lock[j] = t => (0 \notin WaitsFor(t) /\ (lock[0] = t => thread[t].pc = "trim_job_hold")))
    /\ [][\A t \in Threads : (lock'[0] = t /\ lock[0] # t) =>
             \A j \in LockJobs : lock[j] # t]_vars

\* A trim holds _JOBS_LOCK and waits for the lock of a job whose worker holds
\* it, while the poller waits for _JOBS_LOCK.
C27_Witness ==
    \E j, k \in LockJobs :
        /\ lock[0] = Starter(j)
        /\ thread[Starter(j)].pc = "trim_job_wait"
        /\ thread[Starter(j)].list[thread[Starter(j)].i] = k
        /\ lock[k] = WorkerOf(k)
        /\ thread[Poller].pc = "get_wait"

Init == InitPromote /\ InitJobs /\ InitPoll /\ InitTrack /\ InitRegistry /\ InitDist /\ InitSync /\ InitDrift /\ InitSelect
        /\ InitFetch /\ InitLifecycle /\ InitLocks
        /\ InitMaterialize /\ InitRace /\ InitSnapIO

NextJobs ==
    \/ Register(MaxSubmit)
    \/ \E j \in JobIds : TrimBegin(j)
    \/ \E j \in JobIds : TrimStep(j)
    \/ \E j \in JobIds : Worker(j)

NextLive ==
    \/ Register(MaxLive)
    \/ \E j \in JobIds : TrimBegin(j)
    \/ \E j \in JobIds : TrimStep(j)
    \/ \E j \in JobIds : Worker(j)

NextPoll ==
    \/ Register(MaxWatched)
    \/ \E j \in JobIds : TrimBegin(j)
    \/ \E j \in JobIds : Worker(j)
    \/ \E j \in JobIds : RunnerLog(j)
    \/ \E j \in JobIds : GetJob(j)
    \/ \E c \in Cursors : SnapshotAny(c)
    \/ SnapshotClient

Next == NextPromote \/ NextJobs \/ NextPoll \/ NextTrack \/ NextRegistry \/ NextDist \/ NextSync \/ NextDrift \/ NextSelect
        \/ NextFetch \/ NextLifecycle \/ NextLocks
        \/ NextMaterialize \/ NextRace \/ NextSnapIO
Spec == Init /\ [][Next]_vars
SpecPromote == Init /\ [][NextPromote]_vars
SpecJobs == Init /\ [][NextJobs]_vars
\* Every started thread keeps being scheduled, and a _start_job call waiting
\* for the registry lock gets it once it stays free.
SpecJobsFair ==
    /\ Init /\ [][NextLive]_vars
    /\ \A j \in JobIds : WF_vars(TrimBegin(j)) /\ WF_vars(TrimStep(j)) /\ WF_vars(Worker(j))
SpecPoll == Init /\ [][NextPoll]_vars
SpecTrack == Init /\ [][NextTrack]_vars
SpecRegistry == Init /\ [][NextRegistry]_vars
SpecDist == Init /\ [][NextDist]_vars
SpecSync == Init /\ [][NextSync]_vars
SpecDrift == Init /\ [][NextDrift]_vars
SpecSelect == Init /\ [][NextSelect]_vars
SpecFetch == Init /\ [][NextFetch]_vars
SpecLifecycle == Init /\ [][NextLifecycle]_vars
SpecMaterialize == Init /\ [][NextMaterialize]_vars
SpecRace == Init /\ [][NextRace]_vars
SpecSnapIO == Init /\ [][NextSnapIO]_vars
SpecLocks == Init /\ [][NextLocks]_vars
                  /\ (\A j \in LockJobs : WF_vars(StartJobStep(j)) /\ WF_vars(WorkerStep(j)))
                  /\ WF_vars(PollStep)
====
